---- MODULE Spec2Model ----
(***************************************************************************)
(* A model of html2org (src/html2org.go): the conversion of a parsed HTML  *)
(* tree into org markup.  Strings are sequences of one-character strings;  *)
(* the non-breaking space U+00A0 is the single element "NBSP".  The        *)
(* recursive walk of the Go code is run as a machine with an explicit call *)
(* stack: every element handler is split at its recursive call into the   *)
(* part before the call (Enter...) and the part after it (Exit...).        *)
(***************************************************************************)
EXTENDS Integers, Sequences, FiniteSets, TLC

VARIABLES
    sched,    \* the goroutines that call FromHTMLNode: which one runs, and what the
              \* one that does not run holds
    doc,      \* the tree handed to FromHTMLNode (read only)
    options,  \* the Options handed to FromHTMLNode (read only)
    stack,    \* the Go call stack: FromHTMLNode, handleElement, renderEachChild frames
    ctxs,     \* the textifyTraverseContext of every frame that owns one, innermost last
    err,      \* the error being returned up the stack ("nil" when none)
    result,   \* what the outermost FromHTMLNode returned: [status, text, err]
    events    \* history: what the handlers did, in order

vars == <<sched, doc, options, stack, ctxs, err, result, events>>

-----------------------------------------------------------------------------
(* Strings *)

NL == "\n"
NBSP == "NBSP"

Last(s) == s[Len(s)]
Front(s) == SubSeq(s, 1, Len(s) - 1)
HasPrefix(s, p) == Len(s) >= Len(p) /\ SubSeq(s, 1, Len(p)) = p
HasSuffix(s, p) == Len(s) >= Len(p) /\ SubSeq(s, Len(s) - Len(p) + 1, Len(s)) = p
TrimPrefix(s, p) == IF HasPrefix(s, p) THEN SubSeq(s, Len(p) + 1, Len(s)) ELSE s

\* strings.Contains(s, sub)
Contains(s, sub) ==
    \E k \in 0..(Len(s) - Len(sub)) : SubSeq(s, k + 1, k + Len(sub)) = sub

\* strings.Repeat(c, n) for a one-character string c
Repeat(c, n) == [k \in 1..n |-> c]

\* unicode.IsSpace over the characters the model uses
IsSpace(c) == c \in {" ", "\n", "\t", "\r", NBSP}

\* the concatenation of the strings ss[lo], ..., ss[hi]
RECURSIVE ConcatAll(_, _, _)
ConcatAll(ss, lo, hi) ==
    IF lo > hi THEN <<>>
    ELSE IF lo = hi THEN ss[lo]
    ELSE LET mid == (lo + hi) \div 2
         IN ConcatAll(ss, lo, mid) \o ConcatAll(ss, mid + 1, hi)

\* strings.Trim(s, cutset): drop the characters of cutset from both ends
Trim(s, cut) ==
    LET TrimLeftSet(t) ==
            IF \A k \in 1..Len(t) : t[k] \in cut THEN <<>>
            ELSE SubSeq(t, CHOOSE k \in 1..Len(t) :
                               t[k] \notin cut /\ \A j \in 1..(k - 1) : t[j] \in cut,
                        Len(t))
        TrimRightSet(t) ==
            IF \A k \in 1..Len(t) : t[k] \in cut THEN <<>>
            ELSE SubSeq(t, 1, CHOOSE k \in 1..Len(t) :
                                  t[k] \notin cut /\ \A j \in (k + 1)..Len(t) : t[j] \in cut)
    IN TrimRightSet(TrimLeftSet(s))

\* strings.TrimSpace
TrimSpace(s) == Trim(s, {" ", "\n", "\t", "\r", NBSP})

\* spacingRe = `[ \r\n\t]+`, in ReplaceAllString(s, " "): every maximal run
\* of characters of the class becomes one space
spacingRe(s) ==
    LET class == {" ", "\r", "\n", "\t"}
    IN ConcatAll([k \in 1..Len(s) |->
                     IF s[k] \notin class THEN <<s[k]>>
                     ELSE IF k > 1 /\ s[k - 1] \in class THEN <<>>
                     ELSE <<" ">>],
                 1, Len(s))

\* the loop of cleanSpacing: a space that follows a space is not written
dropRepeatedSpaces(s) ==
    ConcatAll([k \in 1..Len(s) |->
                  LET lastIsSpace == k > 1 /\ s[k - 1] = " "
                      spaceRepeated == lastIsSpace /\ s[k] = " "
                  IN IF spaceRepeated THEN <<>> ELSE <<s[k]>>],
              1, Len(s))

\* cleanSpacing without the replacement of spacingRe
cleanSpacingLoopOnly(s) == dropRepeatedSpaces(s)

cleanSpacing(s) == dropRepeatedSpaces(spacingRe(s))

\* trailingSpaceRe = ` +\n` replaced by "\n": a space is dropped when only
\* spaces lie between it and the next newline
trailingSpaceRe(s) ==
    ConcatAll([k \in 1..Len(s) |->
                  IF /\ s[k] = " "
                     /\ \E j \in (k + 1)..Len(s) :
                            s[j] = NL /\ \A i \in k..(j - 1) : s[i] = " "
                  THEN <<>> ELSE <<s[k]>>],
              1, Len(s))

\* newlineRe without its replacement
newlineReKeepsRuns(s) == s

\* newlineRe = `\n\n+` replaced by "\n\n": of a run of newlines the third
\* and every later one is dropped
newlineRe(s) ==
    ConcatAll([k \in 1..Len(s) |->
                  IF k > 2 /\ s[k] = NL /\ s[k - 1] = NL /\ s[k - 2] = NL
                  THEN <<>> ELSE <<s[k]>>],
              1, Len(s))

normalizeNonBreakingSpace(s) == [k \in 1..Len(s) |-> IF s[k] = NBSP THEN " " ELSE s[k]]

\* the tail of FromHTMLNode: the four passes over the raw buffer
finalNormalize(text) ==
    TrimSpace(normalizeNonBreakingSpace(newlineRe(trailingSpaceRe(text))))

-----------------------------------------------------------------------------
(* Options and the render context *)

\* Options{} as Go zero-initialises it (PrettyTablesOptions is left at its
\* default, NewPrettyTablesOptions, which has OrgFormat set)
zeroOptions ==
    [PrettyTables |-> FALSE, OmitLinks |-> FALSE, BreakLongLines |-> FALSE,
     BaseURL |-> <<>>, ShowNoscripts |-> FALSE, InternalLinks |-> FALSE,
     ShowLongDataURL |-> FALSE]

\* tableTraverseContext.init
tableCtxInit ==
    [header |-> <<>>, body |-> <<>>, footer |-> <<>>, tmpRow |-> 0,
     isInFooter |-> FALSE]

\* newContext with the form counter kept in one variable of the package: a
\* new context starts from the forms the other goroutine has counted
newContextSharedCounter(o, frags) ==
    [buf |-> <<>>, prefix |-> <<>>, tableCtx |-> tableCtxInit, options |-> o,
     endsWithNewLine |-> FALSE, justClosedDiv |-> FALSE, blockquoteLevel |-> 0,
     lineLength |-> 0, isPreFormatted |-> FALSE, isInForm |-> FALSE,
     formCounter |-> IF sched.other = <<>> THEN 0
                     ELSE Len(SelectSeq(sched.other[1].events, LAMBDA e : e.e = "form")),
     fragmentIDs |-> frags]

\* textifyTraverseContext{buf: bytes.Buffer{}, fragmentIDs: ..., options: ...}
\* with every other field at its zero value
newContext(o, frags) ==
    [buf |-> <<>>, prefix |-> <<>>, tableCtx |-> tableCtxInit, options |-> o,
     endsWithNewLine |-> FALSE, justClosedDiv |-> FALSE, blockquoteLevel |-> 0,
     lineLength |-> 0, isPreFormatted |-> FALSE, isInForm |-> FALSE,
     formCounter |-> 0, fragmentIDs |-> frags]

\* the context traverseWithSubContext builds before it traverses the children
subContext(ctx) ==
    [newContext(ctx.options, ctx.fragmentIDs) EXCEPT
        !.isPreFormatted = ctx.isPreFormatted,
        !.isInForm = ctx.isInForm,
        !.formCounter = ctx.formCounter]

-----------------------------------------------------------------------------
(* emit and breakLongLines *)

maxLineLen == 74

\* for i >= 0 && !unicode.IsSpace(runes[i]) { i-- } (the indices are Go's,
\* from 0 on: runes[i] is r[i + 1])
scanBack(r, i) ==
    IF \E k \in 0..i : IsSpace(r[k + 1])
    THEN CHOOSE k \in 0..i :
             IsSpace(r[k + 1]) /\ \A j \in (k + 1)..i : ~IsSpace(r[j + 1])
    ELSE -1

\* for i < l && !unicode.IsSpace(runes[i]) { i++ }
scanForward(r, i) ==
    IF \E k \in i..(Len(r) - 1) : IsSpace(r[k + 1])
    THEN CHOOSE k \in i..(Len(r) - 1) :
             IsSpace(r[k + 1]) /\ \A j \in i..(k - 1) : ~IsSpace(r[j + 1])
    ELSE IF i < Len(r) THEN Len(r) ELSE i

\* for i < l && unicode.IsSpace(runes[i]) { i++ }
skipSpaces(r, i) ==
    IF \E k \in i..(Len(r) - 1) : ~IsSpace(r[k + 1])
    THEN CHOOSE k \in i..(Len(r) - 1) :
             ~IsSpace(r[k + 1]) /\ \A j \in i..(k - 1) : IsSpace(r[j + 1])
    ELSE IF i < Len(r) THEN Len(r) ELSE i

\* the for-loop of breakLongLines
RECURSIVE breakLoop(_, _)
breakLoop(runes, existing) ==
    IF Len(runes) + existing > maxLineLen
    THEN LET back == scanBack(runes, maxLineLen - existing)
             i == IF back = -1
                  THEN scanForward(runes, maxLineLen - existing)
                  ELSE back
             j == skipSpaces(runes, i)
         IN <<SubSeq(runes, 1, i) \o <<NL>>>>
                \o breakLoop(SubSeq(runes, j + 1, Len(runes)), 0)
    ELSE IF Len(runes) > 0 THEN <<runes>> ELSE <<>>

breakLongLines(ctx, data) ==
    IF ctx.blockquoteLevel = 0 \/ ~ctx.options.BreakLongLines
    THEN <<data>>
    ELSE IF ctx.lineLength >= maxLineLen
         THEN <<<<NL>>>> \o breakLoop(data, 0)
         ELSE breakLoop(data, ctx.lineLength)

\* the inner loop of emit: every character of line is written to buf;
\* lineLength is incremented by each, and set to 0 by a newline
writeLine(ctx, line) ==
    LET nls == {k \in 1..Len(line) : line[k] = NL}
    IN [ctx EXCEPT
           !.buf = @ \o line,
           !.lineLength =
               IF nls = {} THEN @ + Len(line)
               ELSE Len(line) - (CHOOSE k \in nls : \A j \in nls : j <= k)]

\* emitLine without the removal of the space that opens a line
emitLineKeepsSpace(ctx, line0) ==
    LET atStart == ~ctx.isPreFormatted /\ ctx.endsWithNewLine
        c1 == IF atStart /\ ctx.prefix # <<>>
              THEN [ctx EXCEPT !.endsWithNewLine = FALSE,
                               !.buf = @ \o ctx.prefix]
              ELSE ctx
        c2 == IF line0 # <<>>
              THEN [c1 EXCEPT !.endsWithNewLine = (Last(line0) = NL)]
              ELSE c1
    IN writeLine(c2, line0)

\* one iteration of the outer loop of emit
emitLine(ctx, line0) ==
    LET runes == line0
        atStart == ~ctx.isPreFormatted /\ ctx.endsWithNewLine
        line == IF atStart THEN TrimPrefix(line0, <<" ">>) ELSE line0
        c1 == IF atStart /\ ctx.prefix # <<>>
              THEN [ctx EXCEPT !.endsWithNewLine = FALSE,
                               !.buf = @ \o ctx.prefix]
              ELSE ctx
        c2 == IF line # <<>>
              THEN [c1 EXCEPT !.endsWithNewLine = (Last(runes) = NL)]
              ELSE c1
    IN writeLine(c2, line)

RECURSIVE emitLines(_, _)
emitLines(ctx, lines) ==
    IF lines = <<>> THEN ctx
    ELSE emitLines(emitLine(ctx, Head(lines)), Tail(lines))

emit(ctx, data) ==
    IF data = <<>> THEN ctx ELSE emitLines(ctx, breakLongLines(ctx, data))

-----------------------------------------------------------------------------
(* The html.Node tree *)

NoAttr ==
    [href |-> <<>>, src |-> <<>>, alt |-> <<>>, type |-> <<>>, value |-> <<>>,
     placeholder |-> <<>>, name |-> <<>>, id |-> <<>>, method |-> <<>>,
     action |-> <<>>]

\* html.Node: Type, DataAtom, Attr, Data and the children in order
\* (parsed is not a field of html.Node: it holds, for the text child of a
\* noscript element, the tree html.Parse yields for that text)
Text(data) ==
    [type |-> "text", atom |-> "", attr |-> NoAttr, data |-> data, kids |-> <<>>,
     parsed |-> <<>>]
RawText(data, tree) ==
    [type |-> "text", atom |-> "", attr |-> NoAttr, data |-> data, kids |-> <<>>,
     parsed |-> <<tree>>]
ElA(a, attr, kids) ==
    [type |-> "element", atom |-> a, attr |-> attr, data |-> <<>>, kids |-> kids,
     parsed |-> <<>>]
El(a, kids) == ElA(a, NoAttr, kids)
Document(kids) ==
    [type |-> "document", atom |-> "", attr |-> NoAttr, data |-> <<>>, kids |-> kids,
     parsed |-> <<>>]

getAttrVal(node, attrName) == node.attr[attrName]

\* the node a path of child indexes leads to (index 0: the parsed tree of
\* a noscript text)
RECURSIVE NodeAt(_, _)
NodeAt(n, path) ==
    IF path = <<>> THEN n
    ELSE IF Head(path) = 0 THEN NodeAt(n.parsed[1], Tail(path))
    ELSE NodeAt(n.kids[Head(path)], Tail(path))

blockLevelAtoms ==
    {"address", "article", "aside", "blockquote", "canvas", "dd", "div", "dl",
     "dt", "fieldset", "figcaption", "figure", "footer", "form", "h1", "h2",
     "h3", "h4", "h5", "h6", "header", "hr", "li", "main", "nav", "noscript",
     "ol", "p", "pre", "section", "table", "tfoot", "ul", "video"}

containsBlockLevelAtom(node) ==
    \E k \in 1..Len(node.kids) : node.kids[k].atom \in blockLevelAtoms

RECURSIVE collectFragmentIDs(_)
collectFragmentIDs(node) ==
    UNION { (LET c == node.kids[k]
                 href == getAttrVal(c, "href")
             IN (IF c.atom = "a" /\ HasPrefix(href, <<"#">>) /\ Len(href) > 1
                 THEN {Tail(href)} ELSE {})
                    \cup collectFragmentIDs(c)) : k \in 1..Len(node.kids) }

-----------------------------------------------------------------------------
(* normalizeHrefLink; url.Parse and URL.ResolveReference are net/url's *)

\* strings.Split(s, sep)[0], the part before the first sep, and the first
\* result of strings.Cut
SplitFirst(s, sep) ==
    IF Contains(s, sep)
    THEN LET k == CHOOSE k \in 0..(Len(s) - Len(sep)) :
                    /\ SubSeq(s, k + 1, k + Len(sep)) = sep
                    /\ \A j \in 0..(k - 1) : SubSeq(s, j + 1, j + Len(sep)) # sep
         IN SubSeq(s, 1, k)
    ELSE s

\* strings.ReplaceAll(s, "\n", "")
RemoveNewlines(s) == SelectSeq(s, LAMBDA c : c # NL)

\* the bytes of the characters of the model: net/url works on the bytes of
\* a string. Ascii holds the characters 32 to 126 ("GRAVE" stands for the
\* grave accent, 96); a non-breaking space is two bytes
Ascii ==
    <<" ", "!", "\"", "#", "$", "%", "&", "'", "(", ")", "*", "+", ",", "-", ".", "/",
      "0", "1", "2", "3", "4", "5", "6", "7", "8", "9", ":", ";", "<", "=", ">", "?",
      "@", "A", "B", "C", "D", "E", "F", "G", "H", "I", "J", "K", "L", "M", "N", "O",
      "P", "Q", "R", "S", "T", "U", "V", "W", "X", "Y", "Z", "[", "\\", "]", "^", "_",
      "GRAVE", "a", "b", "c", "d", "e", "f", "g", "h", "i", "j", "k", "l", "m", "n", "o",
      "p", "q", "r", "s", "t", "u", "v", "w", "x", "y", "z", "{", "|", "}", "~">>
toBytes(s) ==
    LET byteOf(c) ==
            IF c = "\t" THEN <<9>> ELSE IF c = NL THEN <<10>> ELSE IF c = "\r" THEN <<13>>
            ELSE IF c = NBSP THEN <<194, 160>>
            ELSE <<31 + (CHOOSE k \in 1..95 : Ascii[k] = c)>>
    IN ConcatAll([k \in 1..Len(s) |-> byteOf(s[k])], 1, Len(s))
fromBytes(b) ==
    ConcatAll([k \in 1..Len(b) |->
                  IF b[k] = 194 /\ k < Len(b) /\ b[k + 1] = 160 THEN <<NBSP>>
                  ELSE IF b[k] = 160 /\ k > 1 /\ b[k - 1] = 194 THEN <<>>
                  ELSE IF b[k] = 9 THEN <<"\t">> ELSE IF b[k] = 10 THEN <<NL>>
                  ELSE IF b[k] = 13 THEN <<"\r">> ELSE <<Ascii[b[k] - 31]>>],
              1, Len(b))

\* strings.IndexByte and strings.LastIndexByte, 1-based, 0 when absent
IndexByte(s, c) ==
    IF \E k \in 1..Len(s) : s[k] = c
    THEN CHOOSE k \in 1..Len(s) : s[k] = c /\ \A j \in 1..(k - 1) : s[j] # c
    ELSE 0
LastIndexByte(s, c) ==
    IF \E k \in 1..Len(s) : s[k] = c
    THEN CHOOSE k \in 1..Len(s) : s[k] = c /\ \A j \in (k + 1)..Len(s) : s[j] # c
    ELSE 0

\* strconv.Quote, which the error texts of net/url use for the URL and for
\* the text they complain about
quote(b) ==
    LET hex(n) == IF n < 10 THEN 48 + n ELSE 87 + n
    IN <<34>> \o ConcatAll([k \in 1..Len(b) |->
                              IF b[k] = 34 THEN <<92, 34>>
                              ELSE IF b[k] = 92 THEN <<92, 92>>
                              ELSE IF b[k] = 9 THEN <<92, 116>>
                              ELSE IF b[k] = 10 THEN <<92, 110>>
                              ELSE IF b[k] = 13 THEN <<92, 114>>
                              ELSE IF b[k] = 194 /\ k < Len(b) /\ b[k + 1] = 160
                                   THEN <<92, 117, 48, 48, 97, 48>>
                              ELSE IF b[k] = 160 /\ k > 1 /\ b[k - 1] = 194 THEN <<>>
                              ELSE IF b[k] < 32 \/ b[k] >= 127
                                   THEN <<92, 120, hex(b[k] \div 16), hex(b[k] % 16)>>
                                   ELSE <<b[k]>>],
                          1, Len(b)) \o <<34>>

\* net/url shouldEscape; the modes are the encodings the parser uses. The
\* sets are, in this order: letters and digits; what a host may hold beside
\* them; the unreserved marks - _ . ~ ; the reserved characters
\* $ & + , / : ; = ? @ (in a path only the question mark is escaped, in a
\* user name or password @ / ? : are); and ! ( ) * for a fragment
shouldEscape(c, mode) ==
    IF c \in (48..57) \cup (65..90) \cup (97..122) THEN FALSE
    ELSE IF mode \in {"host", "zone"} /\ c \in {33, 36, 38, 39, 40, 41, 42, 43, 44, 59, 61, 58, 91, 93, 60, 62, 34} THEN FALSE
    ELSE IF c \in {45, 95, 46, 126} THEN FALSE
    ELSE IF c \in {36, 38, 43, 44, 47, 58, 59, 61, 63, 64}
         THEN CASE mode = "path" -> c = 63
                [] mode = "userPassword" -> c \in {64, 47, 63, 58}
                [] mode = "fragment" -> FALSE
                [] OTHER -> TRUE
    ELSE ~(mode = "fragment" /\ c \in {33, 40, 41, 42})

\* net/url unescape: the bytes s stands for, or the text of the error for
\* the first byte that starts no valid escape (EscapeError, naming at most
\* three bytes from the percent sign on) or that a host may not hold
\* (InvalidHostError); 37 is the percent sign
unescape(s, mode) ==
    LET unhex(c) == IF c <= 57 THEN c - 48 ELSE IF c <= 70 THEN c - 55 ELSE c - 87
        \* the byte the escape at i stands for, -1 when it is no escape
        val(i) ==
            IF i + 2 <= Len(s) /\ \A k \in {i + 1, i + 2} :
                                      s[k] \in (48..57) \cup (65..70) \cup (97..102)
            THEN 16 * unhex(s[i + 1]) + unhex(s[i + 2]) ELSE -1
        \* the byte c the text has at i, as it stands or escaped, is no byte of a
        \* host: an escape is %25 or stands for a byte that is not ASCII (of a
        \* zone: a space, or a byte of a host)
        bad(i, c) ==
            \/ c = -1
            \/ /\ mode \in {"host", "zone"}
               /\ c # 37
               /\ IF s[i] # 37 THEN c < 128 /\ shouldEscape(c, "host")
                  ELSE IF mode = "host" THEN c < 128
                  ELSE c # 32 /\ shouldEscape(c, "host")
        \* errs is where the bad bytes are
        unescaped(errs) ==
            IF errs = {}
            THEN [s |-> ConcatAll([i \in 1..Len(s) |->
                                      IF s[i] = 37 THEN <<val(i)>>
                                      ELSE IF (i > 1 /\ s[i - 1] = 37) \/ (i > 2 /\ s[i - 2] = 37)
                                           THEN <<>> ELSE <<s[i]>>],
                                  1, Len(s)),
                  err |-> <<>>]
            ELSE LET first == CHOOSE i \in errs : \A j \in errs : i <= j
                 IN [s |-> <<>>,
                     err |-> IF s[first] = 37
                             THEN <<105, 110, 118, 97, 108, 105, 100, 32, 85, 82, 76, 32, 101, 115, 99, 97, 112, 101, 32>>
                                      \o quote(SubSeq(s, first, IF first + 2 <= Len(s)
                                                                THEN first + 2 ELSE Len(s)))
                             ELSE <<105, 110, 118, 97, 108, 105, 100, 32, 99, 104, 97, 114, 97, 99, 116, 101, 114, 32, 34>>
                                      \o (IF s[first] = 92 THEN <<92, 92>> ELSE <<s[first]>>)
                                      \o <<34, 32, 105, 110, 32, 104, 111, 115, 116, 32, 110, 97, 109, 101>>]
    IN unescaped({i \in 1..Len(s) : bad(i, IF s[i] = 37 THEN val(i) ELSE s[i])})

\* net/url escape (upper-case hexadecimal digits)
escape(s, mode) ==
    LET hex(n) == IF n < 10 THEN 48 + n ELSE 55 + n
    IN ConcatAll([i \in 1..Len(s) |->
                     IF shouldEscape(s[i], mode)
                     THEN <<37, hex(s[i] \div 16), hex(s[i] % 16)>> ELSE <<s[i]>>],
                 1, Len(s))

\* net/url validEncoded
validEncoded(s, mode) ==
    \A i \in 1..Len(s) :
        \/ s[i] \in {33, 36, 38, 39, 40, 41, 42, 43, 44, 59, 61, 58, 64, 91, 93, 37}
        \/ ~shouldEscape(s[i], mode)

\* URL.EscapedPath and URL.EscapedFragment of a URL whose path (fragment) was
\* set from p: setPath keeps p as RawPath unless it is the default encoding
\* of the path, and EscapedPath answers a valid RawPath
EscapedPath(p, mode) ==
    LET pick(path) ==
            IF p # escape(path, mode) /\ validEncoded(p, mode) THEN p
            ELSE IF mode = "path" /\ path = <<42>> THEN <<42>>
            ELSE escape(path, mode)
    IN pick(unescape(p, mode).s)

\* net/url parseHost: what follows the host is empty or a colon and digits
\* (validOptionalPort), and the host is unescaped (an address in brackets
\* by its parts)
parseHost(host) ==
    LET bracket == host # <<>> /\ host[1] = 91
        i == LastIndexByte(host, 93)
        c == LastIndexByte(host, 58)
        colonPort == IF bracket THEN SubSeq(host, i + 1, Len(host))
                     ELSE IF c # 0 THEN SubSeq(host, c, Len(host)) ELSE <<>>
        zones == {z \in 1..(i - 3) : SubSeq(host, z, z + 2) = <<37, 50, 53>>}
        zone == CHOOSE z \in zones : \A y \in zones : z <= y
        parts == IF bracket /\ zones # {}
                 THEN <<[s |-> SubSeq(host, 1, zone - 1), mode |-> "host"],
                        [s |-> SubSeq(host, zone, i - 1), mode |-> "zone"],
                        [s |-> SubSeq(host, i, Len(host)), mode |-> "host"]>>
                 ELSE <<[s |-> host, mode |-> "host"]>>
        \* the results rs of the parts: the first error, or the parts in a row
        join(rs) ==
            IF \E k \in 1..Len(rs) : rs[k].err # <<>>
            THEN rs[CHOOSE k \in 1..Len(rs) :
                        rs[k].err # <<>> /\ \A j \in 1..(k - 1) : rs[j].err = <<>>]
            ELSE [s |-> ConcatAll([k \in 1..Len(rs) |-> rs[k].s], 1, Len(rs)),
                  err |-> <<>>]
    IN IF bracket /\ i = 0
       THEN [s |-> <<>>, err |-> <<109, 105, 115, 115, 105, 110, 103, 32, 39, 93, 39, 32, 105, 110, 32, 104, 111, 115, 116>>]
       ELSE IF /\ colonPort # <<>>
               /\ \/ colonPort[1] # 58
                  \/ \E k \in 2..Len(colonPort) : colonPort[k] \notin 48..57
       THEN [s |-> <<>>,
             err |-> <<105, 110, 118, 97, 108, 105, 100, 32, 112, 111, 114, 116, 32>> \o quote(colonPort) \o <<32, 97, 102, 116, 101, 114, 32, 104, 111, 115, 116>>]
       ELSE join([k \in 1..Len(parts) |-> unescape(parts[k].s, parts[k].mode)])

\* net/url parseAuthority: User is <<>> (nil), <<username>> or
\* <<username, password>>
parseAuthority(authority) ==
    LET i == LastIndexByte(authority, 64)
        userinfo == SubSeq(authority, 1, i - 1)
        colon == IndexByte(userinfo, 58)
        credentials == IF colon = 0 THEN <<userinfo>>
                       ELSE <<SubSeq(userinfo, 1, colon - 1),
                              SubSeq(userinfo, colon + 1, Len(userinfo))>>
        fail(e) == [User |-> <<>>, Host |-> <<>>, err |-> e]
        \* host is the host parsed, us the user name and the password unescaped
        user(host, us) ==
            IF host.err # <<>> THEN fail(host.err)
            ELSE IF i = 0 THEN [User |-> <<>>, Host |-> host.s, err |-> <<>>]
            ELSE IF \E k \in 1..Len(userinfo) :
                        userinfo[k] \notin (48..57) \cup (65..90) \cup (97..122)
                                    \cup {45, 46, 95, 58, 126, 33, 36, 38, 39, 40, 41, 42, 43, 44, 59, 61, 37, 64}
            THEN fail(<<110, 101, 116, 47, 117, 114, 108, 58, 32, 105, 110, 118, 97, 108, 105, 100, 32, 117, 115, 101, 114, 105, 110, 102, 111>>)
            ELSE IF us[1].err # <<>> THEN fail(us[1].err)
            ELSE IF us[Len(us)].err # <<>> THEN fail(us[Len(us)].err)
            ELSE [User |-> [k \in 1..Len(us) |-> us[k].s], Host |-> host.s, err |-> <<>>]
    IN user(parseHost(SubSeq(authority, i + 1, Len(authority))),
            [k \in 1..Len(credentials) |-> unescape(credentials[k], "userPassword")])

\* net/url getScheme: letters, then digits and + - . up to a colon
getScheme(rawURL) ==
    LET none == [scheme |-> <<>>, rest |-> rawURL, err |-> <<>>]
        \* i is where the loop returns
        stop(i) ==
            IF rawURL[i] # 58 THEN none
            ELSE IF i = 1 THEN [none EXCEPT !.err = <<109, 105, 115, 115, 105, 110, 103, 32, 112, 114, 111, 116, 111, 99, 111, 108, 32, 115, 99, 104, 101, 109, 101>>]
            ELSE [scheme |-> SubSeq(rawURL, 1, i - 1),
                  rest |-> SubSeq(rawURL, i + 1, Len(rawURL)), err |-> <<>>]
        \* stops is where the loop would return
        scan(stops) ==
            IF stops = {} THEN none ELSE stop(CHOOSE i \in stops : \A j \in stops : i <= j)
    IN scan({i \in 1..Len(rawURL) :
                /\ rawURL[i] \notin (65..90) \cup (97..122)
                /\ i = 1 \/ rawURL[i] \notin (48..57) \cup {43, 45, 46}})

\* net/url parse(rawURL, false): the URL without its fragment. Of a URL, Path
\* and Fragment hold the text they were set from, Host and User are
\* unescaped; err is the text of the error, <<>> for nil
parse(rawURL) ==
    LET zeroURL ==
            [Scheme |-> <<>>, Opaque |-> <<>>, User |-> <<>>, Host |-> <<>>, Path |-> <<>>,
             RawQuery |-> <<>>, ForceQuery |-> FALSE, Fragment |-> <<>>, OmitHost |-> FALSE,
             err |-> <<>>]
        fail(e) == [zeroURL EXCEPT !.err = e]
        sch == getScheme(rawURL)
        \* the text between the scheme and the query; the authority is what
        \* follows two slashes in it, up to the next slash or the end
        rest == SplitFirst(sch.rest, <<63>>)
        hasAuthority == /\ HasPrefix(rest, <<47, 47>>)
                        /\ (sch.scheme # <<>> \/ ~HasPrefix(rest, <<47, 47, 47>>))
        authority == SplitFirst(SubSeq(rest, 3, Len(rest)), <<47>>)
        path == IF hasAuthority THEN SubSeq(rest, Len(authority) + 3, Len(rest)) ELSE rest
        \* s is what getScheme found, r the text after it without the query, has
        \* tells whether there is an authority, a is the authority parsed, raw
        \* the path and p the path unescaped (url.setPath)
        build(s, r, has, a, raw, p) ==
            IF s.err # <<>> THEN fail(s.err)
            ELSE IF ~HasPrefix(r, <<47>>) /\ s.scheme # <<>>
            THEN [zeroURL EXCEPT !.Scheme = s.scheme, !.Opaque = r]
            ELSE IF ~HasPrefix(r, <<47>>) /\ Contains(SplitFirst(r, <<47>>), <<58>>)
            THEN fail(<<102, 105, 114, 115, 116, 32, 112, 97, 116, 104, 32, 115, 101, 103, 109, 101, 110, 116, 32, 105, 110, 32, 85, 82, 76, 32, 99, 97, 110, 110, 111, 116, 32, 99, 111, 110, 116, 97, 105, 110, 32, 99, 111, 108, 111, 110>>)
            ELSE IF has /\ a.err # <<>> THEN fail(a.err)
            ELSE IF p.err # <<>> THEN fail(p.err)
            ELSE [zeroURL EXCEPT !.Scheme = s.scheme,
                                 !.User = IF has THEN a.User ELSE <<>>,
                                 !.Host = IF has THEN a.Host ELSE <<>>,
                                 !.OmitHost = ~has /\ s.scheme # <<>> /\ HasPrefix(r, <<47>>),
                                 !.Path = raw]
        \* strings.ToLower of the scheme, and the query
        queried(s, r, url) ==
            IF url.err # <<>> THEN url
            ELSE [url EXCEPT
                     !.Scheme = [k \in 1..Len(@) |-> IF @[k] \in 65..90 THEN @[k] + 32 ELSE @[k]],
                     !.RawQuery = SubSeq(s.rest, Len(r) + 2, Len(s.rest)),
                     !.ForceQuery = Len(r) + 1 = Len(s.rest)]
    IN IF \E k \in 1..Len(rawURL) : rawURL[k] < 32 \/ rawURL[k] = 127
       THEN fail(<<110, 101, 116, 47, 117, 114, 108, 58, 32, 105, 110, 118, 97, 108, 105, 100, 32, 99, 111, 110, 116, 114, 111, 108, 32, 99, 104, 97, 114, 97, 99, 116, 101, 114, 32, 105, 110, 32, 85, 82, 76>>)
       ELSE queried(sch, rest,
                    build(sch, rest, hasAuthority, parseAuthority(authority),
                          path, unescape(path, "path")))

\* url.Parse: the fragment is cut off at the first '#' and unescaped; the
\* error names the text that was parsed
urlParse(rawURL) ==
    LET u == SplitFirst(rawURL, <<35>>)
        frag == SubSeq(rawURL, Len(u) + 2, Len(rawURL))
        setFragment(url, f) ==
            IF url.err = <<>> /\ f.err = <<>> THEN [url EXCEPT !.Fragment = frag]
            ELSE [url EXCEPT !.err = <<112, 97, 114, 115, 101, 32>>
                                         \o quote(IF url.err # <<>> THEN u ELSE rawURL)
                                         \o <<58, 32>>
                                         \o (IF url.err # <<>> THEN url.err ELSE f.err)]
    IN setFragment(parse(u), unescape(frag, "fragment"))

\* net/url resolvePath (RFC 3986, 5.2)
resolvePath(base, ref) ==
    LET \* strings.Split(s, "/")
        splitSlash(s) ==
            LET at == {k \in 1..Len(s) : s[k] = 47}
                cut(j) == IF j = 0 THEN 0 ELSE IF j = Cardinality(at) + 1 THEN Len(s) + 1
                          ELSE CHOOSE k \in at : Cardinality({m \in at : m < k}) = j - 1
            IN [j \in 1..(Cardinality(at) + 1) |-> SubSeq(s, cut(j - 1) + 1, cut(j) - 1)]
        \* the loop of resolvePath over the elements from the k-th on: str is what
        \* was written after the leading '/'
        RECURSIVE resolveLoop(_, _, _, _)
        resolveLoop(elems, k, str, first) ==
            IF k > Len(elems) THEN str
            ELSE IF elems[k] = <<46>> THEN resolveLoop(elems, k + 1, str, FALSE)
            ELSE IF elems[k] = <<46, 46>>
                 THEN IF LastIndexByte(str, 47) = 0 THEN resolveLoop(elems, k + 1, <<>>, TRUE)
                      ELSE resolveLoop(elems, k + 1,
                                       SubSeq(str, 1, LastIndexByte(str, 47) - 1), first)
            ELSE resolveLoop(elems, k + 1,
                             str \o (IF first THEN <<>> ELSE <<47>>) \o elems[k], FALSE)
        \* a leading '/' was written, and two are not wanted
        written(r) == IF Len(r) > 1 /\ r[2] = 47 THEN Tail(r) ELSE r
        resolve(full, elems) ==
            IF full = <<>> THEN <<>>
            ELSE written(<<47>> \o resolveLoop(elems, 1, <<>>, TRUE)
                             \o (IF elems[Len(elems)] \in {<<46>>, <<46, 46>>}
                                 THEN <<47>> ELSE <<>>))
        joined(full) == resolve(full, splitSlash(full))
    IN joined(IF ref = <<>> THEN base
              ELSE IF ref[1] # 47 THEN SubSeq(base, 1, LastIndexByte(base, 47)) \o ref
              ELSE ref)

\* URL.ResolveReference
resolveReference(u, ref) ==
    LET url == [ref EXCEPT !.Scheme = IF ref.Scheme = <<>> THEN u.Scheme ELSE @]
        absolute == ref.Scheme # <<>> \/ ref.Host # <<>> \/ ref.User # <<>>
        inherit == ref.Path = <<>> /\ ~ref.ForceQuery /\ ref.RawQuery = <<>>
        url2 == IF inherit
                THEN [url EXCEPT !.RawQuery = u.RawQuery,
                                 !.Fragment = IF ref.Fragment = <<>>
                                              THEN u.Fragment ELSE @]
                ELSE url
        setPath(path) ==
            IF absolute THEN [url EXCEPT !.Path = path]
            ELSE IF ref.Opaque # <<>>
            THEN [url EXCEPT !.User = <<>>, !.Host = <<>>, !.Path = <<>>]
            ELSE IF ref.Path = <<>> /\ u.Opaque # <<>>
            THEN [url2 EXCEPT !.Opaque = u.Opaque, !.User = <<>>, !.Host = <<>>,
                              !.Path = <<>>]
            ELSE [url2 EXCEPT !.Host = u.Host, !.User = u.User, !.Path = path]
    IN setPath(resolvePath(EscapedPath(IF absolute THEN ref.Path ELSE u.Path, "path"),
                           IF absolute THEN <<>> ELSE EscapedPath(ref.Path, "path")))

\* URL.String
urlString(u) ==
    LET authority ==
            IF u.Scheme = <<>> /\ u.Host = <<>> /\ u.User = <<>> THEN <<>>
            ELSE IF u.OmitHost /\ u.Host = <<>> /\ u.User = <<>> THEN <<>>
            ELSE (IF u.Host # <<>> \/ u.Path # <<>> \/ u.User # <<>>
                  THEN <<47, 47>> ELSE <<>>)
                     \o ConcatAll([k \in 1..Len(u.User) |->
                                       (IF k = 2 THEN <<58>> ELSE <<>>)
                                           \o escape(u.User[k], "userPassword")],
                                   1, Len(u.User))
                     \o (IF u.User # <<>> THEN <<64>> ELSE <<>>)
                     \o escape(u.Host, "host")
        scheme == IF u.Scheme # <<>> THEN u.Scheme \o <<58>> ELSE <<>>
        body(start, path) ==
            IF u.Opaque # <<>> THEN u.Opaque
            ELSE start
                     \o (IF path # <<>> /\ path[1] # 47 /\ u.Host # <<>>
                         THEN <<47>> ELSE <<>>)
                     \o (IF scheme = <<>> /\ start = <<>>
                            /\ Contains(SplitFirst(path, <<47>>), <<58>>)
                         THEN <<46, 47>> ELSE <<>>)
                     \o path
    IN scheme \o body(authority, EscapedPath(u.Path, "path"))
           \o (IF u.ForceQuery \/ u.RawQuery # <<>> THEN <<63>> \o u.RawQuery ELSE <<>>)
           \o (IF u.Fragment # <<>> THEN <<35>> \o EscapedPath(u.Fragment, "fragment")
               ELSE <<>>)

normalizeHrefLink(ctx, link0) ==
    IF link0 = <<>> THEN [s |-> link0, err |-> "nil"]
    ELSE IF HasPrefix(link0, <<"#">>) THEN [s |-> Tail(link0), err |-> "nil"]
    ELSE IF /\ ~ctx.options.ShowLongDataURL
            /\ HasPrefix(link0, <<"d", "a", "t", "a", ":">>)
            /\ Len(toBytes(link0)) > 100
    THEN [s |-> SplitFirst(link0, <<";">>) \o <<";", "(", "o", "m", "i", "t", "t", "e", "d", ")">>,
          err |-> "nil"]
    ELSE IF ctx.options.BaseURL = <<>>
    THEN [s |-> RemoveNewlines(TrimSpace(link0)), err |-> "nil"]
    ELSE LET message == <<105, 110, 118, 97, 108, 105, 100, 32, 85, 82, 76, 32, 101, 115, 99, 97, 112, 101, 32>>
             link == toBytes(RemoveNewlines(TrimSpace(link0)))
             \* the text an error of url.Parse complains about, as normalizeHrefLink
             \* takes it from the error text s: what follows the last message in it,
             \* without the quotes at its ends
             invalid(s) ==
                 Trim(SubSeq(s, 20 + (CHOOSE k \in 0..(Len(s) - 19) :
                                          /\ SubSeq(s, k + 1, k + 19) = message
                                          /\ ~Contains(SubSeq(s, k + 2, Len(s)), message)),
                             Len(s)), {34})
             \* the URL to resolve: the link, or what stands before its invalid part
             retry(first, second) ==
                 IF first.err # <<>> /\ Contains(first.err, message) THEN second ELSE first
             resolve(u, base) ==
                 IF u.err # <<>> \/ base.err # <<>> THEN [s |-> <<>>, err |-> "url"]
                 ELSE [s |-> fromBytes(urlString(resolveReference(base, u))), err |-> "nil"]
         IN resolve(retry(urlParse(link),
                          urlParse(SplitFirst(link, invalid(urlParse(link).err)))),
                    urlParse(toBytes(ctx.options.BaseURL)))

-----------------------------------------------------------------------------
(* The text the handlers build *)

RECURSIVE Itoa(_)
\* fmt's %d
Itoa(n) ==
    LET d == <<"0", "1", "2", "3", "4", "5", "6", "7", "8", "9">>
    IN IF n < 10 THEN <<d[n + 1]>> ELSE Itoa(n \div 10) \o <<d[(n % 10) + 1]>>

\* orgFormIDFormat = "org-form-id--%d"
orgFormID(n) == <<"o", "r", "g", "-", "f", "o", "r", "m", "-", "i", "d", "-", "-">> \o Itoa(n)

allowedInputTypes == {<<"t", "e", "x", "t">>, <<"n", "u", "m", "b", "e", "r">>, <<"p", "a", "s", "s", "w", "o", "r", "d">>, <<"u", "n", "k", "n", "o", "w", "n">>}

\* the stars of a heading: i+1 for the i-th atom of H1..H6
headingAtoms == {"h1", "h2", "h3", "h4", "h5", "h6"}
stars(a) ==
    Repeat("*", CHOOSE k \in 1..6 : <<"h1", "h2", "h3", "h4", "h5", "h6">>[k] = a)

\* the string a heading emits, from the buffer of its sub-context
headingText(a, subBuf) ==
    <<NL>> \o stars(a) \o <<" ">> \o TrimSpace(cleanSpacing(subBuf)) \o <<NL>>

\* linkResult with the text and the target of a link exchanged
linkResultSwapped(linkText, hrefLink) ==
    IF linkText = <<>> /\ hrefLink = <<>> THEN <<>>
    ELSE IF linkText = hrefLink THEN <<"[", "[">> \o linkText \o <<"]", "]">>
    ELSE IF linkText # <<>> /\ hrefLink # <<>>
         THEN <<"[", "[">> \o linkText \o <<"]", "[">> \o hrefLink \o <<"]", "]">>
    ELSE IF linkText = <<>> THEN <<"[", "[">> \o hrefLink \o <<"]", "]">>
    ELSE linkText

\* the five cases of the anchor handler
linkResult(linkText, hrefLink) ==
    IF linkText = <<>> /\ hrefLink = <<>> THEN <<>>
    ELSE IF linkText = hrefLink THEN <<"[", "[">> \o linkText \o <<"]", "]">>
    ELSE IF linkText # <<>> /\ hrefLink # <<>>
         THEN <<"[", "[">> \o hrefLink \o <<"]", "[">> \o linkText \o <<"]", "]">>
    ELSE IF linkText = <<>> /\ hrefLink # <<>> THEN <<"[", "[">> \o hrefLink \o <<"]", "]">>
    ELSE IF linkText # <<>> /\ hrefLink = <<>> THEN linkText
    ELSE <<>>

\* what the input handler emits
inputBlock(ctx, node) ==
    LET t0 == getAttrVal(node, "type")
        t == IF t0 = <<>> THEN <<"u", "n", "k", "n", "o", "w", "n">> ELSE t0
        value == getAttrVal(node, "value")
        content == IF value # <<>> THEN value ELSE getAttrVal(node, "placeholder")
    IN IF t \notin allowedInputTypes THEN <<>>
       ELSE IF ~ctx.isInForm
            THEN <<"\n", "\n", "#", "+", "b", "e", "g", "i", "n", "_", "i", "n", "p", "u", "t", " ", "_", " ", ":", "t", "y", "p", "e", " ">> \o t \o <<NL>> \o content
                    \o <<"\n", "#", "+", "e", "n", "d", "_", "i", "n", "p", "u", "t", "\n", "\n">>
            ELSE <<"\n", "\n", "#", "+", "b", "e", "g", "i", "n", "_", "i", "n", "p", "u", "t", " ", "_", " ", ":", "t", "y", "p", "e", " ">> \o t \o <<" ", ":", "i", "d", " ">>
                    \o orgFormID(ctx.formCounter) \o <<" ", ":", "n", "a", "m", "e", " ">>
                    \o getAttrVal(node, "name") \o <<NL>> \o content
                    \o <<"\n", "#", "+", "e", "n", "d", "_", "i", "n", "p", "u", "t", "\n">>

\* what the textarea handler emits, from the buffer of its sub-context
textareaBlock(ctx, node, subBuf) ==
    LET content == IF subBuf = <<>> THEN getAttrVal(node, "placeholder") ELSE subBuf
    IN IF ~ctx.isInForm
       THEN <<"\n", "\n", "#", "+", "b", "e", "g", "i", "n", "_", "t", "e", "x", "t", "a", "r", "e", "a", " ", "_", "\n">> \o content \o <<"\n", "#", "+", "e", "n", "d", "_", "t", "e", "x", "t", "a", "r", "e", "a", "\n", "\n">>
       ELSE <<"\n", "\n", "#", "+", "b", "e", "g", "i", "n", "_", "t", "e", "x", "t", "a", "r", "e", "a", " ", "_", " ", ":", "i", "d", " ">> \o orgFormID(ctx.formCounter)
                \o <<" ", ":", "n", "a", "m", "e", " ">> \o getAttrVal(node, "name") \o <<NL>> \o content
                \o <<"\n", "#", "+", "e", "n", "d", "_", "t", "e", "x", "t", "a", "r", "e", "a", "\n">>

\* the Submit link of a form whose counter value is c
formLink(c, method, normalized) ==
    <<"[", "[", "o", "r", "g", "-", "f", "o", "r", "m", ":">> \o orgFormID(c) \o <<":">> \o method \o <<":">> \o normalized
        \o <<"]", "[", "S", "u", "b", "m", "i", "t", "]", "]", "\n", "\n">>

\* what the image handler emits
imageBlock(alt, src) ==
    IF src = <<>> THEN <<>>
    ELSE IF alt # <<>>
         THEN <<"\n", "#", "+", "C", "A", "P", "T", "I", "O", "N", ":", " ">> \o alt \o <<"\n", "[", "[">> \o src \o <<"]", "]", "\n">>
         ELSE <<"[", "[">> \o src \o <<"]", "]", "\n">>

\* handleInternalLinks panics when it cuts the last byte off an empty buffer
internalLinksPanics(ctx, node) ==
    /\ ctx.options.InternalLinks
    /\ \/ getAttrVal(node, "id") \in ctx.fragmentIDs
       \/ getAttrVal(node, "name") \in ctx.fragmentIDs
    /\ ctx.endsWithNewLine
    /\ ctx.buf = <<>>

\* the element matches a collected fragment name and gets a marker
internalLinkMatched(ctx, node) ==
    /\ ctx.options.InternalLinks
    /\ \/ getAttrVal(node, "id") \in ctx.fragmentIDs
       \/ getAttrVal(node, "name") \in ctx.fragmentIDs

\* the context on which handleInternalLinks calls emit for the marker: the
\* last byte is cut off the buffer when endsWithNewLine is set
internalLinkCut(ctx) ==
    IF ctx.endsWithNewLine
    THEN [ctx EXCEPT !.buf = Front(@), !.endsWithNewLine = FALSE]
    ELSE ctx

handleInternalLinks(ctx, node) ==
    LET id == getAttrVal(node, "id")
        name == getAttrVal(node, "name")
        matchedID == id \in ctx.fragmentIDs
        matchedName == name \in ctx.fragmentIDs
        frag == IF matchedID THEN id ELSE name
        endsWithNewLine == ctx.endsWithNewLine
        c1 == internalLinkCut(ctx)
        c2 == emit(c1, <<" ", "<", "<">> \o frag \o <<">", ">", " ">>)
    IN IF ~ctx.options.InternalLinks \/ ~(matchedID \/ matchedName) THEN ctx
       ELSE IF endsWithNewLine THEN emit(c2, <<NL>>) ELSE c2

-----------------------------------------------------------------------------
(* The call stack *)

\* A frame is one activation of FromHTMLNode or of an element handler (or of
\* traverseChildren for a node that is no element):
\*   p      the node it works on, as a path into doc
\*   i      the child its loop is at
\*   own    it made a sub-context (traverseWithSubContext), the last of ctxs
\*   s      a string local kept across the recursive call
\*   mode   which branch of the handler made the call
\*   phase  "walk" while in traverseChildren; the passes of FromHTMLNode;
\*          "cells" for renderEachChild
\*   lvl0   history: blockquoteLevel of the handler's context when entered
\*   len0   history: the length of that context's buffer when entered
Top == stack[Len(stack)]
Cur == ctxs[Len(ctxs)]
TopNode == NodeAt(doc, Top.p)

\* the context a returning handler was called on, under its sub-context
Receiver == IF Top.own THEN ctxs[Len(ctxs) - 1] ELSE Cur

ChildCount(f) ==
    IF f.fn = "FromHTMLNode" THEN 1 ELSE Len(NodeAt(doc, f.p).kids)
ChildPath(f) ==
    IF f.fn = "FromHTMLNode" THEN f.p ELSE Append(f.p, f.i)

NextPath == ChildPath(Top)
NextNode == NodeAt(doc, NextPath)

\* traverse is about to be called on the next child
Walking ==
    /\ stack # <<>>
    /\ err = "nil"
    /\ result.status = "none"
    /\ Top.phase = "walk"
    /\ Top.i <= ChildCount(Top)

Visiting(atoms) ==
    /\ Walking
    /\ NextNode.type = "element"
    /\ NextNode.atom \in atoms

\* traverseChildren of the top frame has returned, with or without an error
Returning(atoms) ==
    /\ stack # <<>>
    /\ result.status = "none"
    /\ Top.fn = "handleElement"
    /\ Top.phase = "walk"
    /\ TopNode.atom \in atoms
    /\ (err # "nil" \/ Top.i > ChildCount(Top))

NewFrame(fn, p, own, s, mode, phase, c) ==
    [fn |-> fn, p |-> p, i |-> 1, own |-> own, s |-> s, mode |-> mode,
     phase |-> phase, lvl0 |-> c.blockquoteLevel, len0 |-> Len(c.buf)]

\* SetCur for contexts that share one buffer
SetCurShared(c) ==
    [j \in 1..Len(ctxs) |-> IF j = Len(ctxs) THEN c ELSE [ctxs[j] EXCEPT !.buf = c.buf]]

\* the context the running code works on becomes c
SetCur(c) == [ctxs EXCEPT ![Len(ctxs)] = c]

\* history: the handler of the node at p returned e; its context had
\* blockquoteLevel lvlIn when it was entered and has lvlOut now; out is what
\* it wrote to the buffer of that context, sub the buffer of its sub-context,
\* atStart, wrap and pretty say how that context stood when its children had
\* returned
ReturnEvent(p, node, lvlIn, len0, b, c, e, sub) ==
    [e |-> "return", p |-> p, atom |-> node.atom, lvlIn |-> lvlIn,
     lvlOut |-> c.blockquoteLevel, err |-> e,
     out |-> SubSeq(c.buf, len0 + 1, Len(c.buf)), sub |-> sub,
     atStart |-> (b.endsWithNewLine /\ ~b.isPreFormatted),
     wrap |-> (b.blockquoteLevel > 0 /\ b.options.BreakLongLines),
     pre |-> b.isPreFormatted,
     pretty |-> b.options.PrettyTables]

\* history: handleInternalLinks wrote a marker for the node at p, whose
\* handler had left the context as c: had is whether the buffer ended with a
\* newline when endsWithNewLine was tested, flag and ends are
\* endsWithNewLine and whether the buffer ends with a newline when emit is
\* called for the marker
MarkerEvent(p, c, node, e) ==
    IF e = "nil" /\ internalLinkMatched(c, node) /\ ~internalLinksPanics(c, node)
    THEN <<[e |-> "marker", p |-> p, set |-> c.endsWithNewLine,
            had |-> (c.buf # <<>> /\ Last(c.buf) = NL),
            flag |-> internalLinkCut(c).endsWithNewLine,
            ends |-> (internalLinkCut(c).buf # <<>>
                         /\ Last(internalLinkCut(c).buf) = NL)]>>
    ELSE <<>>

\* what traverse does once handleElement has returned e on context c
afterHandler(c, node, e) ==
    IF e = "nil" /\ ~internalLinksPanics(c, node)
    THEN handleInternalLinks(c, node) ELSE c
afterHandlerErr(c, node, e) ==
    IF e = "nil" /\ internalLinksPanics(c, node) THEN "panic" ELSE e

\* the handler of the next child changes the context to c and calls
\* traverseChildren, on c or (own) on a sub-context of c
Call(c, own, s, mode) ==
    /\ stack' = Append(stack, NewFrame("handleElement", NextPath, own, s, mode,
                                       "walk", Cur))
    /\ ctxs' = IF own THEN Append(SetCur(c), subContext(c)) ELSE SetCur(c)
    /\ UNCHANGED <<sched, doc, options, err, result, events>>

\* the handler of the next child returns e without a recursive call,
\* leaving the context as c
Leaf(c, e, evs) ==
    /\ ctxs' = SetCur(afterHandler(c, NextNode, e))
    /\ err' = afterHandlerErr(c, NextNode, e)
    /\ stack' = [stack EXCEPT ![Len(stack)].i = @ + 1]
    /\ events' = events \o evs
                    \o <<ReturnEvent(NextPath, NextNode, Cur.blockquoteLevel,
                                      Len(Cur.buf), Cur, c, e, <<>>)>>
                    \o MarkerEvent(NextPath, c, NextNode, e)
    /\ UNCHANGED <<sched, doc, options, result>>

\* the handler of the top frame returns e, leaving its context as c
Return(c, e, evs) ==
    LET base == IF Top.own THEN Front(ctxs) ELSE ctxs
        rest == Front(stack)
    IN /\ ctxs' = [base EXCEPT ![Len(base)] = afterHandler(c, TopNode, e)]
       /\ err' = afterHandlerErr(c, TopNode, e)
       /\ stack' = [rest EXCEPT ![Len(rest)].i = @ + 1]
       /\ events' = events \o evs
                        \o <<ReturnEvent(Top.p, TopNode, Top.lvl0, Top.len0, Receiver,
                                          c, e, IF Top.own THEN Cur.buf ELSE <<>>)>>
                        \o MarkerEvent(Top.p, c, TopNode, e)
       /\ UNCHANGED <<sched, doc, options>>

ReturnKeep(c, e, evs) == Return(c, e, evs) /\ UNCHANGED result

\* history: normalizeHrefLink returned an error to the handler of the node at p
NormFail(p) == <<[e |-> "normfail", p |-> p]>>

-----------------------------------------------------------------------------
(* FromHTMLNode *)

\* ctx.collectFragmentIDs(doc)
CollectFragmentIDs ==
    /\ stack # <<>>
    /\ Top.fn = "FromHTMLNode"
    /\ Top.phase = "collect"
    /\ ctxs' = SetCur([Cur EXCEPT !.fragmentIDs = collectFragmentIDs(TopNode)])
    /\ stack' = [stack EXCEPT ![Len(stack)].phase = "walk"]
    /\ UNCHANGED <<sched, doc, options, err, result, events>>

\* ctx.traverse(doc) returned an error: return "", err
FromHTMLNodeFail ==
    /\ stack # <<>>
    /\ Top.fn = "FromHTMLNode"
    /\ Top.phase = "walk"
    /\ err # "nil"
    /\ stack' = Front(stack)
    /\ ctxs' = Front(ctxs)
    /\ result' = IF Len(stack) = 1
                 THEN [status |-> "returned", text |-> <<>>, err |-> err]
                 ELSE result
    /\ UNCHANGED <<sched, doc, options, err, events>>

\* text := ctx.buf.String(); text = trailingSpaceRe.ReplaceAllString(text, "\n")
TrailingSpace ==
    /\ stack # <<>>
    /\ Top.fn = "FromHTMLNode"
    /\ Top.phase = "walk"
    /\ err = "nil"
    /\ Top.i > 1
    /\ stack' = [stack EXCEPT ![Len(stack)].phase = "newline",
                              ![Len(stack)].s = trailingSpaceRe(Cur.buf)]
    /\ UNCHANGED <<sched, doc, options, ctxs, err, result, events>>

\* text = newlineRe.ReplaceAllString(text, "\n\n")
CollapseNewlines ==
    /\ stack # <<>>
    /\ Top.fn = "FromHTMLNode"
    /\ Top.phase = "newline"
    /\ stack' = [stack EXCEPT ![Len(stack)].phase = "nbsp",
                              ![Len(stack)].s = newlineRe(@)]
    /\ UNCHANGED <<sched, doc, options, ctxs, err, result, events>>

\* text = normalizeNonBreakingSpace(text)
NonBreakingSpace ==
    /\ stack # <<>>
    /\ Top.fn = "FromHTMLNode"
    /\ Top.phase = "nbsp"
    /\ stack' = [stack EXCEPT ![Len(stack)].phase = "trim",
                              ![Len(stack)].s = normalizeNonBreakingSpace(@)]
    /\ UNCHANGED <<sched, doc, options, ctxs, err, result, events>>

\* text = strings.TrimSpace(text); return text, nil
FromHTMLNodeReturn ==
    /\ stack # <<>>
    /\ Top.fn = "FromHTMLNode"
    /\ Top.phase = "trim"
    /\ stack' = Front(stack)
    /\ ctxs' = Front(ctxs)
    /\ result' = [status |-> "returned", text |-> TrimSpace(Top.s), err |-> "nil"]
    /\ UNCHANGED <<sched, doc, options, err, events>>

-----------------------------------------------------------------------------
(* traverse *)

\* history: the text node at p was traversed on context b, which became c;
\* data is what was handed to emit, out what was written to the buffer
TextEvent(p, b, c, data) ==
    [e |-> "text", p |-> p, pre |-> b.isPreFormatted, data |-> data,
     out |-> SubSeq(c.buf, Len(b.buf) + 1, Len(c.buf)),
     atStart |-> (b.endsWithNewLine /\ ~b.isPreFormatted),
     wrap |-> (b.blockquoteLevel > 0 /\ b.options.BreakLongLines)]

\* case html.TextNode
TraverseText ==
    /\ Walking
    /\ NextNode.type = "text"
    /\ LET data == IF Cur.isPreFormatted THEN NextNode.data
                   ELSE cleanSpacing(NextNode.data)
           c == emit(Cur, data)
       IN /\ ctxs' = SetCur(c)
          /\ events' = Append(events, TextEvent(NextPath, Cur, c, data))
    /\ stack' = [stack EXCEPT ![Len(stack)].i = @ + 1]
    /\ UNCHANGED <<sched, doc, options, err, result>>

\* default: a node that is neither text nor element: traverseChildren
TraverseOther ==
    /\ Walking
    /\ NextNode.type \notin {"text", "element"}
    /\ stack' = Append(stack, NewFrame("traverse", NextPath, FALSE, <<>>, "",
                                       "walk", Cur))
    /\ UNCHANGED <<sched, doc, options, ctxs, err, result, events>>

TraverseOtherReturn ==
    /\ stack # <<>>
    /\ result.status = "none"
    /\ Top.fn = "traverse"
    /\ (err # "nil" \/ Top.i > ChildCount(Top))
    /\ stack' = [Front(stack) EXCEPT ![Len(stack) - 1].i = @ + 1]
    /\ UNCHANGED <<sched, doc, options, ctxs, err, result, events>>

-----------------------------------------------------------------------------
(* handleElement: one Enter action per case up to its recursive call, one  *)
(* Exit action for what follows the call                                   *)

\* ctx.justClosedDiv = false, the first statement of handleElement
Entered == [Cur EXCEPT !.justClosedDiv = FALSE]

\* case atom.Br
Br ==
    /\ Visiting({"br"})
    /\ Leaf(emit(Entered, <<NL>>), "nil", <<>>)

\* case atom.H1 .. atom.H6
EnterHeading ==
    /\ Visiting(headingAtoms)
    /\ Call(Entered, TRUE, <<>>, "")

ExitHeading ==
    /\ Returning(headingAtoms)
    /\ IF err # "nil" THEN ReturnKeep(Receiver, err, <<>>)
       ELSE ReturnKeep(emit(Receiver, headingText(TopNode.atom, Cur.buf)), "nil", <<>>)

\* case atom.Blockquote
EnterBlockquote ==
    /\ Visiting({"blockquote"})
    /\ LET c1 == [Entered EXCEPT !.blockquoteLevel = @ + 1]
           c2 == emit(c1, <<NL>>)
           c3 == IF c2.blockquoteLevel = 1 THEN emit(c2, <<"\n", "#", "+", "b", "e", "g", "i", "n", "_", "q", "u", "o", "t", "e", "\n">>) ELSE c2
       IN Call(c3, FALSE, <<>>, "")

ExitBlockquote ==
    /\ Returning({"blockquote"})
    /\ IF err # "nil" THEN ReturnKeep(Cur, err, <<>>)
       ELSE LET c1 == IF Cur.blockquoteLevel = 1 THEN emit(Cur, <<"\n", "#", "+", "e", "n", "d", "_", "q", "u", "o", "t", "e", "\n">>) ELSE Cur
                c2 == [c1 EXCEPT !.blockquoteLevel = @ - 1]
            IN ReturnKeep(emit(c2, <<NL, NL>>), "nil", <<>>)

\* case atom.Div
EnterDiv ==
    /\ Visiting({"div"})
    /\ Call(IF Entered.lineLength > 0 THEN emit(Entered, <<NL>>) ELSE Entered,
            FALSE, <<>>, "")

ExitDiv ==
    /\ Returning({"div"})
    /\ IF err # "nil" THEN ReturnKeep(Cur, err, <<>>)
       ELSE LET c == IF ~Cur.justClosedDiv THEN emit(Cur, <<NL>>) ELSE Cur
            IN ReturnKeep([c EXCEPT !.justClosedDiv = TRUE], "nil", <<>>)

\* case atom.Li
EnterLi ==
    /\ Visiting({"li"})
    /\ Call(Entered, TRUE, <<>>, "")

\* the context of the li once its text is written: ctx.prefix = "- ", a
\* newline unless the line is new, and ctx.emit(strings.Trim(s, " \n\r\t"))
liItem(ctx, s) ==
    LET c1 == [ctx EXCEPT !.prefix = <<"-", " ">>]
        c2 == IF ~c1.endsWithNewLine THEN emit(c1, <<NL>>) ELSE c1
    IN emit(c2, Trim(s, {" ", "\n", "\r", "\t"}))

ExitLi ==
    /\ Returning({"li"})
    /\ IF err # "nil" THEN ReturnKeep(Receiver, err, <<>>)
       ELSE LET s == Cur.buf
                cleaned == TrimSpace(cleanSpacing(s))
                c4 == [liItem(Receiver, s) EXCEPT !.prefix = <<>>]
            IN IF cleaned = <<>> THEN ReturnKeep(Receiver, "nil", <<>>)
               ELSE ReturnKeep(emit(c4, <<NL>>), "nil", <<>>)

\* case atom.Dt
EnterDt ==
    /\ Visiting({"dt"})
    /\ LET c1 == IF ~Entered.endsWithNewLine THEN emit(Entered, <<NL>>) ELSE Entered
       IN Call(emit(c1, <<"_">>), FALSE, <<>>, "")

ExitDt ==
    /\ Returning({"dt"})
    /\ IF err # "nil" THEN ReturnKeep(Cur, err, <<>>)
       ELSE ReturnKeep(emit(Cur, <<"_", NL>>), "nil", <<>>)

\* case atom.Dd
EnterDd ==
    /\ Visiting({"dd"})
    /\ Call(IF ~Entered.endsWithNewLine THEN emit(Entered, <<NL>>) ELSE Entered,
            FALSE, <<>>, "")

ExitDd ==
    /\ Returning({"dd"})
    /\ IF err # "nil" THEN ReturnKeep(Cur, err, <<>>)
       ELSE ReturnKeep(emit(Cur, <<NL>>), "nil", <<>>)

\* case atom.B, atom.Strong: an error of the sub-context is answered by
\* return nil; a panic is no error value and unwinds through the handler
EnterBold ==
    /\ Visiting({"b", "strong"})
    /\ Call(Entered, TRUE, <<>>, "")

ExitBold ==
    /\ Returning({"b", "strong"})
    /\ IF err = "panic" THEN ReturnKeep(Receiver, "panic", <<>>)
       ELSE IF err # "nil" THEN ReturnKeep(Receiver, "nil", <<>>)
       ELSE ReturnKeep(emit(Receiver, <<"*">> \o Cur.buf \o <<"*">>), "nil", <<>>)

\* case atom.A, up to the call that renders the children
anchorMode(node) ==
    LET n == Len(node.kids)
        soleImg == n = 1 /\ node.kids[1].atom = "img"
    IN IF soleImg
       THEN IF getAttrVal(node.kids[1], "alt") # <<>> THEN "alt" ELSE "none"
       ELSE IF containsBlockLevelAtom(node) THEN "block" ELSE "plain"

\* anchorLinkText with the text peeked at kept for a sole text child
anchorLinkTextPeeked(node, mode, subBuf) ==
    LET peeked == IF Len(node.kids) = 1 /\ node.kids[1].type = "text"
                  THEN node.kids[1].data ELSE <<>>
    IN CASE mode = "alt" -> getAttrVal(node.kids[1], "alt")
         [] mode = "none" -> peeked
         [] mode = "block" -> <<"L", "i", "n", "k">>
         [] OTHER -> IF peeked # <<>> THEN peeked ELSE TrimSpace(subBuf)

\* linkText as it stands when the children have been rendered
anchorLinkText(node, mode, subBuf) ==
    LET peeked == IF Len(node.kids) = 1 /\ node.kids[1].type = "text"
                  THEN node.kids[1].data ELSE <<>>
    IN CASE mode = "alt" -> getAttrVal(node.kids[1], "alt")
         [] mode = "none" -> peeked
         [] mode = "block" -> <<"L", "i", "n", "k">>
         [] OTHER -> TrimSpace(subBuf)

\* anchorHref without the test of OmitLinks
anchorHrefAlways(c, node) ==
    normalizeHrefLink(c, TrimSpace(getAttrVal(node, "href")))

\* hrefLink and err, as they stand before the link is built
anchorHref(c, node) ==
    IF c.options.OmitLinks THEN [s |-> <<>>, err |-> "nil"]
    ELSE normalizeHrefLink(c, TrimSpace(getAttrVal(node, "href")))

EnterAnchor ==
    /\ Visiting({"a"})
    /\ LET mode == anchorMode(NextNode)
       IN IF mode = "none"
          THEN \* no child is rendered: the frame is pushed with its loop over
               /\ stack' = Append(stack,
                     [NewFrame("handleElement", NextPath, FALSE, <<>>, mode, "walk", Cur)
                      EXCEPT !.i = Len(NextNode.kids) + 1])
               /\ ctxs' = SetCur(Entered)
               /\ UNCHANGED <<sched, doc, options, err, result, events>>
          ELSE Call(Entered, mode # "alt", <<>>, mode)

ExitAnchor ==
    /\ Returning({"a"})
    /\ IF err # "nil" THEN ReturnKeep(Receiver, err, <<>>)
       ELSE LET node == TopNode
                linkText == anchorLinkText(node, Top.mode, Cur.buf)
                c1 == IF Top.mode = "block"
                      THEN emit(Receiver,
                                <<NL>> \o TrimPrefix(cleanSpacing(Cur.buf), <<" ">>))
                      ELSE Receiver
                \* norm is hrefLink and err, res the link that is written
                linked(norm, res) ==
                    IF norm.err # "nil" THEN ReturnKeep(c1, norm.err, NormFail(Top.p))
                    ELSE ReturnKeep(emit(c1, res), "nil",
                             <<[e |-> "link", p |-> Top.p, linkText |-> linkText,
                                hrefLink |-> norm.s, res |-> res]>>)
                built(norm) == linked(norm, linkResult(linkText, norm.s))
            IN built(anchorHref(c1, node))

\* paragraphHandler: case atom.P, atom.Ul, and atom.Table without PrettyTables
IsParagraph(node, c) ==
    \/ node.atom \in {"p", "ul"}
    \/ node.atom = "table" /\ ~c.options.PrettyTables

EnterParagraph ==
    /\ Visiting({"p", "ul", "table"})
    /\ IsParagraph(NextNode, Cur)
    /\ Call(emit(Entered, <<NL, NL>>), FALSE, <<>>, "")

ExitParagraph ==
    /\ Returning({"p", "ul", "table"})
    /\ IsParagraph(TopNode, Cur)
    /\ IF err # "nil" THEN ReturnKeep(Cur, err, <<>>)
       ELSE ReturnKeep(emit(Cur, <<NL, NL>>), "nil", <<>>)

\* case atom.Tfoot, atom.Th, atom.Tr, atom.Td without PrettyTables
EnterPlainCell ==
    /\ Visiting({"tfoot", "th", "tr", "td"})
    /\ ~Cur.options.PrettyTables
    /\ Call(Entered, FALSE, <<>>, "")

ExitPlainCell ==
    /\ Returning({"tfoot", "th", "tr", "td"})
    /\ ~Cur.options.PrettyTables
    /\ IF err # "nil" THEN ReturnKeep(Cur, err, <<>>)
       ELSE LET a == TopNode.atom
                c == IF a = "tr" THEN emit(Cur, <<NL>>)
                     ELSE IF a \in {"td", "th"} THEN emit(Cur, <<" ">>)
                     ELSE Cur
            IN ReturnKeep(c, "nil", <<>>)

\* case atom.Input
Input ==
    /\ Visiting({"input"})
    /\ LET block == inputBlock(Entered, NextNode)
       IN Leaf(emit(Entered, block), "nil",
               IF block = <<>> THEN <<>>
               ELSE <<[e |-> "input", p |-> NextPath, inForm |-> Entered.isInForm,
                       id |-> IF Entered.isInForm THEN Entered.formCounter ELSE 0,
                       block |-> block]>>)

\* case atom.Textarea
EnterTextarea ==
    /\ Visiting({"textarea"})
    /\ Call([Entered EXCEPT !.isPreFormatted = TRUE], TRUE, <<>>, "")

\* a panic below the textarea unwinds before ctx.isPreFormatted = false
ExitTextarea ==
    /\ Returning({"textarea"})
    /\ LET c == [Receiver EXCEPT !.isPreFormatted = FALSE]
       IN IF err = "panic" THEN ReturnKeep(Receiver, "panic", <<>>)
          ELSE IF err # "nil" THEN ReturnKeep(c, err, <<>>)
          ELSE ReturnKeep(emit(c, textareaBlock(c, TopNode, Cur.buf)), "nil", <<>>)

\* case atom.Form
EnterForm ==
    /\ Visiting({"form"})
    /\ LET node == NextNode
           method0 == getAttrVal(node, "method")
           action0 == getAttrVal(node, "action")
           method == IF method0 = <<>> THEN <<"g", "e", "t">> ELSE method0
           action == IF action0 = <<>> THEN Entered.options.BaseURL ELSE action0
           c == Entered.formCounter + 1
           c1 == [Entered EXCEPT !.isInForm = TRUE, !.formCounter = c]
           \* norm is the action normalized, and err
           entered(norm) ==
               IF norm.err # "nil" THEN Leaf(c1, norm.err, NormFail(NextPath))
               ELSE /\ stack' = Append(stack, NewFrame("handleElement", NextPath, FALSE,
                                                       formLink(c, method, norm.s),
                                                       "", "walk", Cur))
                    /\ ctxs' = SetCur(c1)
                    /\ events' = Append(events, [e |-> "form", p |-> NextPath, id |-> c])
                    /\ UNCHANGED <<sched, doc, options, err, result>>
       IN entered(normalizeHrefLink(Entered, action))

\* the link is emitted and isInForm cleared also when traverseChildren
\* returned an error; a panic unwinds before both
ExitForm ==
    /\ Returning({"form"})
    /\ LET c1 == emit(Cur, Top.s)
       IN IF err = "panic" THEN ReturnKeep(Cur, "panic", <<>>)
          ELSE ReturnKeep([c1 EXCEPT !.isInForm = FALSE], err, <<>>)

\* case atom.Img
Img ==
    /\ Visiting({"img"})
    /\ LET \* norm is the src normalized, and err
           image(norm) ==
               IF norm.err # "nil" THEN Leaf(Entered, norm.err, NormFail(NextPath))
               ELSE Leaf(emit(Entered, imageBlock(getAttrVal(NextNode, "alt"), norm.s)),
                         "nil", <<>>)
       IN image(normalizeHrefLink(Entered, getAttrVal(NextNode, "src")))

\* case atom.Pre
EnterPre ==
    /\ Visiting({"pre"})
    /\ IF Entered.isPreFormatted THEN Call(Entered, FALSE, <<>>, "nested")
       ELSE Call(emit([Entered EXCEPT !.isPreFormatted = TRUE], <<"\n", "#", "+", "b", "e", "g", "i", "n", "_", "s", "r", "c", "\n">>),
                 FALSE, <<>>, "outer")

ExitPre ==
    /\ Returning({"pre"})
    /\ IF Top.mode = "nested" \/ err = "panic" THEN ReturnKeep(Cur, err, <<>>)
       ELSE LET c1 == IF ~Cur.endsWithNewLine THEN emit(Cur, <<NL>>) ELSE Cur
                c2 == emit(c1, <<"#", "+", "e", "n", "d", "_", "s", "r", "c", "\n">>)
            IN ReturnKeep([c2 EXCEPT !.isPreFormatted = FALSE], err, <<>>)

\* case atom.Samp, atom.Kbd, atom.Tt, atom.Var, atom.Code
codeAtoms == {"samp", "kbd", "tt", "var", "code"}

EnterCode ==
    /\ Visiting(codeAtoms)
    /\ IF Entered.isPreFormatted THEN Call(Entered, FALSE, <<>>, "nested")
       ELSE Call(Entered, TRUE, <<>>, "sub")

ExitCode ==
    /\ Returning(codeAtoms)
    /\ IF Top.mode = "nested" \/ err # "nil" THEN ReturnKeep(Receiver, err, <<>>)
       ELSE LET r == TrimSpace(Cur.buf)
            IN IF Contains(r, <<NL>>)
               THEN ReturnKeep(emit(Receiver, <<"\n", "#", "+", "b", "e", "g", "i", "n", "_", "s", "r", "c", "\n">> \o r \o <<"\n", "#", "+", "e", "n", "d", "_", "s", "r", "c", "\n">>),
                               "nil", <<>>)
               ELSE ReturnKeep(emit(Receiver, <<"~">> \o r \o <<"~">>), "nil", <<>>)

\* case atom.Title: an error of the children is answered by return nil; a
\* panic is no error value and unwinds through the handler
EnterTitle ==
    /\ Visiting({"title"})
    /\ Call(emit(Entered, <<"#", "+", "T", "I", "T", "L", "E", ":", " ">>), FALSE, <<>>, "")

ExitTitle ==
    /\ Returning({"title"})
    /\ IF err = "panic" THEN ReturnKeep(Cur, "panic", <<>>)
       ELSE IF err # "nil" THEN ReturnKeep(Cur, "nil", <<>>)
       ELSE ReturnKeep(emit(Cur, <<NL, NL, NL>>), "nil", <<>>)

\* case atom.Style, atom.Script, atom.Meta, atom.Link; and atom.Noscript
\* when it renders nothing
Ignore ==
    /\ \/ Visiting({"style", "script", "meta", "link"})
       \/ /\ Visiting({"noscript"})
          /\ ~(Cur.options.ShowNoscripts /\ NextNode.kids # <<>>)
    /\ Leaf(Entered, "nil", <<>>)

\* every atom handleElement has a case for
handledAtoms ==
    {"br", "blockquote", "div", "li", "dt", "dd", "b", "strong", "a", "p", "ul",
     "table", "tfoot", "th", "tr", "td", "input", "textarea", "form", "img", "pre",
     "title", "noscript", "style", "script", "meta", "link"}
        \cup headingAtoms \cup codeAtoms

\* default: traverseChildren
EnterDefault ==
    /\ Walking
    /\ NextNode.type = "element"
    /\ NextNode.atom \notin handledAtoms
    /\ Call(Entered, FALSE, <<>>, "")

ExitDefault ==
    /\ stack # <<>>
    /\ result.status = "none"
    /\ Top.fn = "handleElement"
    /\ Top.phase = "walk"
    /\ TopNode.atom \notin handledAtoms
    /\ (err # "nil" \/ Top.i > ChildCount(Top))
    /\ ReturnKeep(Cur, err, <<>>)

-----------------------------------------------------------------------------
(* handleTableElement (PrettyTables) and renderEachChild *)

\* tablewriter (github.com/olekukonko/tablewriter), as handleTableElement
\* sets it up from NewPrettyTablesOptions: no wrapping of the cells, header
\* and footer formatted by Title and centred, all borders, a line under the
\* header and none between the rows

\* getLines: strings.Split(s, "\n")
RECURSIVE getLines(_)
getLines(s) ==
    LET i == IndexByte(s, NL)
    IN IF i = 0 THEN <<s>>
       ELSE <<SubSeq(s, 1, i - 1)>> \o getLines(SubSeq(s, i + 1, Len(s)))

\* DisplayWidth (runewidth.StringWidth): a control character has no width
DisplayWidth(s) == Len(SelectSeq(s, LAMBDA c : c \notin {"\t", "\r"}))

MaxOf(S) == IF S = {} THEN 0 ELSE CHOOSE m \in S : \A x \in S : x <= m

\* parseDimension, t.rs: the number of lines a row of cells is high
rowHeight(row) == MaxOf({Len(getLines(row[y])) : y \in 1..Len(row)})

\* parseDimension, t.cs: the width of every column in which the header, the
\* footer or a row has a cell, that of the widest line of its cells
colWidths(header, body, footer) ==
    LET cellWidth(cell) ==
            MaxOf({DisplayWidth(getLines(cell)[k]) : k \in 1..Len(getLines(cell))})
        rows == <<header, footer>> \o body
        n == MaxOf({Len(rows[r]) : r \in 1..Len(rows)})
    IN [y \in 1..n |->
           MaxOf({cellWidth(rows[r][y]) : r \in {q \in 1..Len(rows) : Len(rows[q]) >= y}})]

\* Pad (centred: the smaller half of the gap on the left)
Pad(s, width) ==
    LET gap == width - DisplayWidth(s)
    IN IF gap > 0 THEN Repeat(" ", gap \div 2) \o s \o Repeat(" ", gap - (gap \div 2))
       ELSE s

\* Title: an underscore becomes a space, and so does a full stop that does
\* not stand between digits or spaces (a character before it that was
\* replaced counts as the space it became); the name is trimmed, kept one
\* space long at least, and upper-cased (strings.ToUpper)
Title(name) ==
    LET isNumOrSpace(r) == r \in {"0", "1", "2", "3", "4", "5", "6", "7", "8", "9", " "}
        RECURSIVE dotSpaced(_)
        \* the full stop at i is replaced; the character before it is what
        \* the loop has made of it
        dotSpaced(i) ==
            \/ /\ i # 1
               /\ IF name[i - 1] = "." THEN ~dotSpaced(i - 1)
                  ELSE name[i - 1] # "_" /\ ~isNumOrSpace(name[i - 1])
            \/ i # Len(name) /\ ~isNumOrSpace(name[i + 1])
        spaced(i) == name[i] = "_" \/ (name[i] = "." /\ dotSpaced(i))
        lower == <<"a", "b", "c", "d", "e", "f", "g", "h", "i", "j", "k", "l", "m",
                   "n", "o", "p", "q", "r", "s", "t", "u", "v", "w", "x", "y", "z">>
        upper == <<"A", "B", "C", "D", "E", "F", "G", "H", "I", "J", "K", "L", "M",
                   "N", "O", "P", "Q", "R", "S", "T", "U", "V", "W", "X", "Y", "Z">>
        ToUpper(t) ==
            [k \in 1..Len(t) |->
                IF \E j \in 1..26 : lower[j] = t[k]
                THEN upper[CHOOSE j \in 1..26 : lower[j] = t[k]] ELSE t[k]]
        trimmed == TrimSpace([i \in 1..Len(name) |-> IF spaced(i) THEN " " ELSE name[i]])
    IN ToUpper(IF trimmed = <<>> /\ name # <<>> THEN <<" ">> ELSE trimmed)

\* the regular expression decimal, `^-?(?:\d{1,3}(?:,\d{3})*|\d+)(?:\.\d+)?$`
\* (the other one of the default alignment, percent, matches no string)
decimal(s) ==
    LET allDigits(w) ==
            /\ w # <<>>
            /\ \A k \in 1..Len(w) :
                   w[k] \in {"0", "1", "2", "3", "4", "5", "6", "7", "8", "9"}
        u == IF HasPrefix(s, <<"-">>) THEN Tail(s) ELSE s
        int == SplitFirst(u, <<".">>)
        frac == SubSeq(u, Len(int) + 2, Len(u))
        grouped(w) ==
            \E k \in 1..3 :
                /\ k <= Len(w)
                /\ allDigits(SubSeq(w, 1, k))
                /\ (Len(w) - k) % 4 = 0
                /\ \A j \in 0..(((Len(w) - k) \div 4) - 1) :
                       /\ w[k + 4 * j + 1] = ","
                       /\ allDigits(SubSeq(w, k + 4 * j + 2, k + 4 * j + 4))
    IN /\ allDigits(int) \/ grouped(int)
       /\ Len(int) = Len(u) \/ allDigits(frac)

\* printLine: the centre separator and two more dashes than the column is wide
printLine(cs) ==
    <<"+">> \o ConcatAll([y \in 1..Len(cs) |-> Repeat("-", cs[y] + 2) \o <<"+">>],
                         1, Len(cs)) \o <<NL>>

\* the x-th line of a cell, or what stands for a line the cell does not have
cellLine(cell, x, missing) ==
    IF x <= Len(getLines(cell)) THEN getLines(cell)[x] ELSE missing

\* printHeading: every column of the table, a column without header cell empty
printHeading(header, cs) ==
    LET line(x) ==
            <<"|">> \o ConcatAll([y \in 1..Len(cs) |->
                          <<" ">> \o Pad(Title(IF y <= Len(header)
                                               THEN cellLine(header[y], x, <<>>)
                                               ELSE <<>>), cs[y]) \o <<" ", "|">>],
                          1, Len(cs)) \o <<NL>>
    IN IF header = <<>> THEN <<>>
       ELSE ConcatAll([x \in 1..rowHeight(header) |-> line(x)], 1, rowHeight(header))
                \o printLine(cs)

\* printRow: the cells the row has, a number to the right and any other text
\* to the left; a cell with fewer lines than the row is filled with "  "
printRow(row, cs) ==
    LET gap(str, y) == Repeat(" ", MaxOf({0, cs[y] - DisplayWidth(str)}))
        cell(y, x) ==
            LET str == cellLine(row[y], x, <<" ", " ">>)
            IN IF decimal(TrimSpace(str)) THEN gap(str, y) \o str  \* PadLeft
               ELSE str \o gap(str, y)                             \* PadRight
        line(x) ==
            ConcatAll([y \in 1..Len(row) |-> <<"|", " ">> \o cell(y, x) \o <<" ">>],
                      1, Len(row)) \o <<"|", NL>>
    IN ConcatAll([x \in 1..rowHeight(row) |-> line(x)], 1, rowHeight(row))

\* printFooter indexes erasePad and t.footers, which are as long as the
\* footer, by the columns of the table
printFooterPanics(footer, cs) == footer # <<>> /\ Len(footer) < Len(cs)

\* printFooter: no column separator after a cell whose first line is empty
printFooter(footer, cs) ==
    LET erasePad(y) == Title(cellLine(footer[y], 1, <<>>)) = <<>>
        line(x) ==
            <<"|">> \o ConcatAll([y \in 1..Len(cs) |->
                          <<" ">> \o Pad(Title(cellLine(footer[y], x, <<>>)), cs[y])
                              \o <<" ", IF erasePad(y) THEN " " ELSE "|">>],
                          1, Len(cs)) \o <<NL>>
    IN IF footer = <<>> THEN <<>>
       ELSE ConcatAll([x \in 1..rowHeight(footer) |-> line(x)], 1, rowHeight(footer))
                \o printLine(cs)

\* table.SetHeader, SetFooter, AppendBulk and Render
tableRender(header, body, footer) ==
    LET cs == colWidths(header, body, footer)
        printRows == ConcatAll([r \in 1..Len(body) |-> printRow(body[r], cs)],
                               1, Len(body))
    IN printLine(cs) \o printHeading(header, cs) \o printRows
           \o printLine(cs) \o printFooter(footer, cs)

\* the OrgFormat part of the table case
orgFormat(s0) ==
    LET \* strings.ReplaceAll(s, old, new) for an old of two different characters
        \* (its occurrences cannot overlap)
        ReplaceAll2(s, old, new) ==
            LET at(k) == k >= 1 /\ k < Len(s) /\ s[k] = old[1] /\ s[k + 1] = old[2]
            IN ConcatAll([k \in 1..Len(s) |->
                             IF at(k) THEN new ELSE IF at(k - 1) THEN <<>> ELSE <<s[k]>>],
                         1, Len(s))
        s1 == IF HasSuffix(s0, <<NL>>) THEN Front(s0) ELSE s0
        firstIndex == IndexByte(s1, NL) - 1
        lastIndex == LastIndexByte(s1, NL) - 1
        firstLine == SubSeq(s1, 1, firstIndex)
        lastLine == SubSeq(s1, lastIndex + 1, Len(s1))
        s2 == IF Contains(lastLine, <<"+">>) THEN SubSeq(s1, 1, lastIndex) ELSE s1
        s3 == IF Contains(firstLine, <<"+">>) THEN SubSeq(s2, firstIndex + 1, Len(s2)) ELSE s2
    IN ReplaceAll2(ReplaceAll2(s3, <<NL, "+">>, <<NL, "|">>), <<"+", NL>>, <<"|", NL>>)

\* case atom.Table
EnterPrettyTable ==
    /\ Visiting({"table"})
    /\ Cur.options.PrettyTables
    /\ LET c == emit(Entered, <<NL, NL>>)
       IN Call([c EXCEPT !.tableCtx = tableCtxInit], FALSE, <<>>, "")

ExitPrettyTable ==
    /\ Returning({"table"})
    /\ Cur.options.PrettyTables
    /\ IF err # "nil" THEN ReturnKeep(Cur, err, <<>>)
       ELSE IF printFooterPanics(Cur.tableCtx.footer,
                                 colWidths(Cur.tableCtx.header, Cur.tableCtx.body,
                                           Cur.tableCtx.footer))
       THEN ReturnKeep(Cur, "panic", <<>>)
       ELSE LET t == Cur.tableCtx
                s == orgFormat(tableRender(t.header, t.body, t.footer))
            IN ReturnKeep(emit(emit(Cur, s), <<NL, NL>>), "nil",
                   <<[e |-> "table", p |-> Top.p, header |-> t.header,
                      body |-> t.body, footer |-> t.footer]>>)

\* case atom.Tfoot
EnterTfoot ==
    /\ Visiting({"tfoot"})
    /\ Cur.options.PrettyTables
    /\ Call([Entered EXCEPT !.tableCtx.isInFooter = TRUE], FALSE, <<>>, "")

ExitTfoot ==
    /\ Returning({"tfoot"})
    /\ Cur.options.PrettyTables
    /\ IF err # "nil" THEN ReturnKeep(Cur, err, <<>>)
       ELSE ReturnKeep([Cur EXCEPT !.tableCtx.isInFooter = FALSE], "nil", <<>>)

\* case atom.Tr
EnterTr ==
    /\ Visiting({"tr"})
    /\ Cur.options.PrettyTables
    /\ Call([Entered EXCEPT !.tableCtx.body = Append(@, <<>>)], FALSE, <<>>, "")

ExitTr ==
    /\ Returning({"tr"})
    /\ Cur.options.PrettyTables
    /\ IF err # "nil" THEN ReturnKeep(Cur, err, <<>>)
       ELSE ReturnKeep([Cur EXCEPT !.tableCtx.tmpRow = @ + 1], "nil", <<>>)

\* case atom.Th, atom.Td: renderEachChild
EnterCell ==
    /\ Visiting({"th", "td"})
    /\ Cur.options.PrettyTables
    /\ stack' = Append(stack, NewFrame("handleElement", NextPath, FALSE, <<>>, "",
                                       "cells", Cur))
    /\ ctxs' = SetCur(Entered)
    /\ UNCHANGED <<sched, doc, options, err, result, events>>

InCells ==
    /\ stack # <<>>
    /\ Top.fn = "handleElement"
    /\ Top.phase = "cells"

\* s, err := FromHTMLNode(c, ctx.options)
RenderEachChild ==
    /\ InCells
    /\ err = "nil"
    /\ result.status = "none"
    /\ Top.i <= ChildCount(Top)
    /\ stack' = Append(stack, NewFrame("FromHTMLNode", NextPath, TRUE, <<>>, "",
                                       "collect", newContext(zeroOptions, {})))
    /\ ctxs' = Append(ctxs, newContext(Cur.options, {}))
    /\ UNCHANGED <<sched, doc, options, err, result, events>>

\* buf.WriteString(s), and a newline after a block-level child that is not
\* the last
RenderEachChildNext ==
    /\ InCells
    /\ err = "nil"
    /\ result.status = "returned"
    /\ LET c == NextNode
           sep == IF Top.i < ChildCount(Top) /\ c.atom \in blockLevelAtoms
                  THEN <<NL>> ELSE <<>>
       IN stack' = [stack EXCEPT ![Len(stack)].s = @ \o result.text \o sep,
                                 ![Len(stack)].i = @ + 1]
    /\ result' = [status |-> "none", text |-> <<>>, err |-> "nil"]
    /\ UNCHANGED <<sched, doc, options, ctxs, err, events>>

\* cellAppend with a row cursor that stays at the first row
cellAppendFirstRow(t, a, res) ==
    IF a = "th" THEN [t EXCEPT !.header = Append(@, res)]
    ELSE IF t.isInFooter THEN [t EXCEPT !.footer = Append(@, res)]
    ELSE [t EXCEPT !.body[1] = Append(@, res)]

\* the td append indexes body[tmpRow]
cellAppend(t, a, res) ==
    IF a = "th" THEN [t EXCEPT !.header = Append(@, res)]
    ELSE IF t.isInFooter THEN [t EXCEPT !.footer = Append(@, res)]
    ELSE [t EXCEPT !.body[t.tmpRow + 1] = Append(@, res)]

cellAppendPanics(t, a) ==
    a = "td" /\ ~t.isInFooter /\ t.tmpRow >= Len(t.body)

ExitCell ==
    /\ InCells
    /\ result.status = "none"
    /\ (err # "nil" \/ Top.i > ChildCount(Top))
    /\ IF err # "nil" THEN ReturnKeep(Cur, err, <<>>)
       ELSE IF cellAppendPanics(Cur.tableCtx, TopNode.atom)
            THEN ReturnKeep(Cur, "panic", <<>>)
            ELSE ReturnKeep([Cur EXCEPT !.tableCtx = cellAppend(@, TopNode.atom, Top.s)],
                            "nil",
                            <<[e |-> "cell", p |-> Top.p, atom |-> TopNode.atom,
                               text |-> Top.s]>>)

-----------------------------------------------------------------------------
(* case atom.Noscript, when it renders: FromString(node.FirstChild.Data) *)

EnterNoscript ==
    /\ Visiting({"noscript"})
    /\ Cur.options.ShowNoscripts
    /\ NextNode.kids # <<>>
    /\ stack' = stack
            \o <<NewFrame("handleElement", NextPath, FALSE, <<>>, "", "call", Cur),
                 NewFrame("FromHTMLNode", NextPath \o <<1, 0>>, TRUE, <<>>, "",
                          "collect", newContext(zeroOptions, {}))>>
    /\ ctxs' = Append(SetCur(Entered), newContext(zeroOptions, {}))
    /\ UNCHANGED <<sched, doc, options, err, result, events>>

ExitNoscript ==
    /\ stack # <<>>
    /\ Top.fn = "handleElement"
    /\ Top.phase = "call"
    /\ (err # "nil" \/ result.status = "returned")
    /\ IF err # "nil" THEN Return(Cur, err, <<>>)
       ELSE Return(emit(Cur, result.text), "nil", <<>>)
    /\ result' = [status |-> "none", text |-> <<>>, err |-> "nil"]

-----------------------------------------------------------------------------
(* The inputs: trees html.Parse can yield, and the Options they are        *)
(* converted under                                                         *)

\* the longest chain of wrappers around a leaf
MaxDepth == 2

\* html.Parse puts every tree under html, with a head and a body
Page(kids) == Document(<<El("html", <<El("head", <<>>), El("body", kids)>>)>>)

Href(h, kids) == ElA("a", [NoAttr EXCEPT !.href = h], kids)
InputField(t, name) == ElA("input", [NoAttr EXCEPT !.type = t, !.name = name], <<>>)
FormEl(action, kids) == ElA("form", [NoAttr EXCEPT !.action = action], kids)

\* an href url.Parse rejects (missing protocol scheme) when a BaseURL is set
BadHref == <<":">>

BaseURLs == {<<>>, <<"h", "t", "t", "p", ":", "/", "/", "h", "/">>}

Wrappers == {"blockquote", "li", "b", "h2", "a", "td", "form", "div"}

\* kids under one more element; a li comes in its ul, a td in its table
Wrap(w, kids) ==
    CASE w = "li" -> El("ul", <<El("li", kids)>>)
      [] w = "td" -> El("table", <<El("tbody", <<El("tr", <<El("td", kids)>>)>>)>>)
      [] w = "a" -> Href(<<"u">>, kids)
      [] w = "form" -> FormEl(<<>>, kids)
      [] OTHER -> El(w, kids)

RECURSIVE WrapAll(_, _)
WrapAll(chain, kids) ==
    IF chain = <<>> THEN kids
    ELSE <<Wrap(Head(chain), WrapAll(Tail(chain), kids))>>

\* what the chains are wrapped around: a name and the nodes
Leaves ==
    {[n |-> "text", kids |-> <<Text(<<"x">>)>>],
     [n |-> "quote", kids |-> <<El("blockquote", <<Text(<<"q">>)>>)>>],
     [n |-> "a", kids |-> <<Href(BadHref, <<Text(<<"x">>)>>)>>],
     [n |-> "img", kids |-> <<ElA("img", [NoAttr EXCEPT !.src = BadHref], <<>>), Text(<<"x">>)>>],
     [n |-> "form", kids |-> <<FormEl(<<>>, <<InputField(<<"t", "e", "x", "t">>, <<"n">>),
                                              InputField(<<"p", "a", "s", "s", "w", "o", "r", "d">>, <<"m">>)>>),
                              FormEl(<<"u">>, <<InputField(<<"t", "e", "x", "t">>, <<"n">>)>>),
                              InputField(<<>>, <<>>)>>]}

Chains(d) == UNION {[1..k -> Wrappers] : k \in 0..d}

\* html.Parse yields no a inside an a unless a table cell lies between, no
\* form inside a form, and no heading directly inside a heading
RECURSIVE NoNestedA(_, _)
NoNestedA(chain, inA) ==
    IF chain = <<>> THEN TRUE
    ELSE LET w == Head(chain)
         IN /\ ~(w = "a" /\ inA)
            /\ NoNestedA(Tail(chain), IF w = "td" THEN FALSE ELSE (inA \/ w = "a"))

InnermostA(chain) ==
    \E k \in 1..Len(chain) :
        chain[k] = "a" /\ \A j \in (k + 1)..Len(chain) : chain[j] # "td"

Parseable(chain, leaf) ==
    /\ NoNestedA(chain, FALSE)
    /\ Cardinality({k \in 1..Len(chain) : chain[k] = "form"}) <= 1
    /\ \A k \in 1..(Len(chain) - 1) : ~(chain[k] = "h2" /\ chain[k + 1] = "h2")
    /\ leaf.n = "a" => ~InnermostA(chain)
    /\ leaf.n = "form" => \A k \in 1..Len(chain) : chain[k] # "form"

\* the chains around the leaves; PrettyTables is set only for a chain with a
\* table, a BaseURL only for a leaf with a link target
ChainInputs ==
    {[doc |-> Page(WrapAll(x[1], x[2].kids)),
      options |-> [zeroOptions EXCEPT !.BaseURL = x[3], !.PrettyTables = x[4]]] :
        x \in {y \in Chains(MaxDepth) \X Leaves \X BaseURLs \X BOOLEAN :
                  /\ Parseable(y[1], y[2])
                  /\ y[4] => \E k \in 1..Len(y[1]) : y[1][k] = "td"
                  /\ y[3] # <<>> => y[2].n \in {"a", "img", "form"}}}

\* two forms, each under its own wrapper (C5), also under noscript elements
FormA == FormEl(<<>>, <<InputField(<<"t", "e", "x", "t">>, <<"n">>)>>)
FormB == FormEl(<<"u">>, <<InputField(<<"t", "e", "x", "t">>, <<"m">>)>>)
Noscript(kids) == El("noscript", <<RawText(<<"r">>, Page(kids))>>)

\* an element as the first child of a noscript, which the parser yields when
\* scripting is disabled: its Data is the tag name, which html.Parse reads
\* as a text
Named(node, tag) == [node EXCEPT !.data = tag, !.parsed = <<Page(<<Text(tag)>>)>>]

SiblingDocs ==
    {Page(WrapAll(<<w>>, <<FormA>>) \o WrapAll(<<w>>, <<FormB>>)) :
        w \in Wrappers \ {"form"}}
      \cup {Page(<<FormEl(<<>>, WrapAll(<<w>>, <<InputField(<<"t", "e", "x", "t">>, <<"n">>)>>)
                                \o <<InputField(<<"t", "e", "x", "t">>, <<"m">>)>>)>>) :
                w \in Wrappers \ {"form"}}
      \cup {Page(<<Wrap("li", <<FormA>>), FormB>>),
            Page(<<Noscript(<<FormA>>), Noscript(<<FormB>>)>>),
            Page(<<Noscript(<<El("blockquote", <<Text(<<"q">>)>>)>>)>>),
            Page(<<Text(<<"a">>),
                   El("noscript", <<Named(El("p", <<Text(<<"x">>)>>), <<"p">>)>>)>>),
            Page(<<El("noscript", <<>>), Text(<<"a">>)>>)}
      \cup {Page(<<FormA,
                   FormEl(<<>>, WrapAll(<<w>>,
                       <<ElA("textarea", [NoAttr EXCEPT !.name = <<"n">>],
                             <<Text(<<"a">>)>>)>>))>>) :
                w \in {"li", "b", "td"}}

SiblingInputs ==
    {[doc |-> d, options |-> [zeroOptions EXCEPT !.PrettyTables = t, !.ShowNoscripts = n]] :
        d \in SiblingDocs, t \in BOOLEAN, n \in BOOLEAN}

\* anchors: every combination of an empty or non-empty link text and target,
\* and a target url.Parse rejects
LinkTexts ==
    {<<>>, <<Text(<<"u">>)>>, <<Text(<<"y">>)>>, <<Text(<<" ", "u", NL>>)>>,
     <<ElA("img", [NoAttr EXCEPT !.alt = <<"u">>, !.src = <<"s">>], <<>>)>>,
     <<ElA("img", [NoAttr EXCEPT !.src = <<"s">>], <<>>)>>,
     <<El("b", <<Text(<<"y">>)>>)>>,
     <<El("p", <<Text(<<"y">>)>>)>>,
     <<El("span", <<El("p", <<Text(<<"y">>)>>), El("p", <<Text(<<"z">>)>>)>>)>>}

LinkTargets == {<<>>, <<"u">>, <<" ", "u">>, <<"%", "z", "z">>, <<"#", "f">>, BadHref}

LinkInputs ==
    {[doc |-> Page(<<Href(h, k)>>),
      options |-> [zeroOptions EXCEPT !.OmitLinks = o, !.BaseURL = b]] :
        h \in LinkTargets, k \in LinkTexts, o \in BOOLEAN, b \in BaseURLs}

\* headings: every level, contents with white space and line breaks, and a
\* content longer than a line, inside and outside a block quote
LongWord == [k \in 1..(maxLineLen + 1) |-> "w"]

HeadingContents ==
    {<<>>, <<Text(<<"x">>)>>,
     <<Text(<<" ", "a", " ", " ">>), El("br", <<>>), Text(<<"b", NL, "\t", "c", " ">>)>>,
     <<El("span", <<Text(<<"a">>)>>), Text(<<" ", "b">>)>>,
     <<Text(<<"a", " ">> \o LongWord)>>}

HeadingDocs ==
    {Page(IF q THEN <<El("blockquote", <<El(a, k)>>)>> ELSE <<Text(<<"t">>), El(a, k)>>) :
        a \in headingAtoms, k \in HeadingContents, q \in BOOLEAN}

HeadingInputs ==
    {[doc |-> d, options |-> [zeroOptions EXCEPT !.BreakLongLines = w]] :
        d \in HeadingDocs, w \in BOOLEAN}

\* verbatim text longer than a line, inside and outside a block quote
VerbatimInputs ==
    {[doc |-> Page(IF q THEN <<El("blockquote", <<El("pre", k)>>)>> ELSE <<El("pre", k)>>),
      options |-> [zeroOptions EXCEPT !.BreakLongLines = w]] :
        q \in BOOLEAN, w \in BOOLEAN,
        k \in {<<Text(<<" ", "a", " ">> \o LongWord \o <<" ", " ", "b", NL>>)>>,
               <<Text(<<"a", NL>>), El("span", <<Text(<<" ", "b", "\t", "\t", "c">>)>>)>>}}

\* tables: H header cells, F footer cells, R body rows of C cells
MaxRows == 2
MaxCols == 2

Cell(a, t) == El(a, IF t = <<>> THEN <<>> ELSE <<Text(t)>>)

\* the text of the j-th cell of row i; with holes, the first cell of every
\* row is empty
CellText(kind, i, j, holes) ==
    IF holes /\ j = 1 THEN <<>> ELSE <<kind, Itoa(i)[1], Itoa(j)[1]>>

Row(a, kind, i, n, holes) ==
    El("tr", [j \in 1..n |-> Cell(a, CellText(kind, i, j, holes))])

TableEl(h, f, r, c, holes) ==
    El("table",
       (IF h > 0 THEN <<El("thead", <<Row("th", "h", 0, h, holes)>>)>> ELSE <<>>)
         \o (IF r > 0 THEN <<El("tbody", [i \in 1..r |-> Row("td", "b", i, c, holes)])>>
             ELSE <<>>)
         \o (IF f > 0 THEN <<El("tfoot", <<Row("td", "f", 0, f, holes)>>)>> ELSE <<>>))

Shapes == (0..MaxCols) \X (0..MaxCols) \X (0..MaxRows) \X (1..MaxCols) \X BOOLEAN

InnerTable == El("table", <<El("tbody", <<El("tr", <<Cell("td", <<"i">>)>>)>>)>>)
OuterBody == El("tbody", <<El("tr", <<Cell("td", <<"o">>)>>)>>)

\* a table whose footer has fewer cells than its rows, in a form in a pre
ShortFooterDoc ==
    Page(<<El("pre", <<El("form", <<TableEl(0, 1, 1, 2, TRUE)>>)>>)>>)

TableDocs ==
    {Page(<<TableEl(s[1], s[2], s[3], s[4], s[5])>>) : s \in Shapes}
      \cup {Page(<<Text(<<"t">>), TableEl(1, 1, 1, 2, FALSE), TableEl(0, 0, 2, 1, TRUE)>>),
            Page(<<El("table", <<El("caption", <<InnerTable>>), OuterBody>>)>>),
            Page(<<El("table", <<OuterBody, El("caption", <<InnerTable>>)>>)>>),
            Page(<<El("table", <<El("caption", <<Text(<<"c">>)>>), OuterBody>>)>>),
            ShortFooterDoc}

TableInputs ==
    {[doc |-> d, options |-> [zeroOptions EXCEPT !.PrettyTables = t]] :
        d \in TableDocs, t \in BOOLEAN}

\* one document for every other case of handleElement
SampleDocs ==
    {Page(<<El("div", <<El("div", <<Text(<<"a">>)>>), Text(<<"b">>)>>), Text(<<"c">>)>>),
     Page(<<El("div", <<Text(<<"x">>), El("div", <<Text(<<"a">>)>>), Text(<<" ">>)>>),
            Text(<<"c">>)>>),
     Page(<<El("div", <<El("span", <<El("div", <<Text(<<"a">>)>>), Text(<<"b">>)>>)>>),
            El("div", <<Text(<<"c">>)>>)>>),
     Document(<<El("html", <<El("head", <<El("title", <<Text(<<"T">>)>>),
                                          El("style", <<Text(<<"s">>)>>),
                                          El("meta", <<>>)>>),
                             El("body", <<Text(<<"a">>), El("br", <<>>), Text(<<"b">>)>>)>>)>>),
     Page(<<El("dl", <<El("dt", <<Text(<<"t">>)>>), El("dd", <<Text(<<"d">>)>>)>>)>>),
     Page(<<ElA("textarea", [NoAttr EXCEPT !.name = <<"n">>], <<Text(<<"a", NL, "b">>)>>)>>),
     Page(<<El("pre", <<Text(<<"a", " ", " ", "b", NL>>),
                        El("code", <<Text(<<"c">>)>>),
                        El("pre", <<Text(<<"d">>)>>)>>)>>),
     Page(<<El("code", <<Text(<<"a", NL, "b">>)>>), El("kbd", <<Text(<<"k">>)>>)>>),
     Page(<<El("p", <<Text(<<"a">>), El("strong", <<Text(<<"b">>)>>),
                      El("span", <<Text(<<"c", NBSP>>)>>),
                      ElA("img", [NoAttr EXCEPT !.src = <<"s">>, !.alt = <<"i">>], <<>>)>>),
            El("script", <<Text(<<"s">>)>>)>>),
     Page(<<El("pre", <<Href(<<"u">>, <<Text(<<" ", "x", " ", " ", "y", NL>>)>>)>>),
            Href(<<"u">>, <<Text(<<" ", "x", " ", " ", "y", NL>>)>>)>>),
     Page(<<El("pre", <<Text(<<"a", " ", " ", "b">>),
                        ElA("textarea", NoAttr, <<Text(<<"t">>)>>),
                        Text(<<" ", "c", " ", " ", "d">>),
                        El("pre", <<Text(<<"e">>)>>)>>)>>),
     Page(<<El("p", <<Text(<<" ", "\t", "a", NL, "\r", NL, " ", " ", "b", " ">>)>>),
            Text(<<"c", "\t", "\t", "d", " ", " ">>), Text(<<" ", "e">>)>>)}

SampleInputs == {[doc |-> d, options |-> zeroOptions] : d \in SampleDocs}

\* the calls that are run side by side: between them the three documents
\* hold every kind of node handleElement has a case for
ConcInputs ==
    {[doc |-> Document(<<El("html",
                <<El("head", <<El("title", <<Text(<<"T">>)>>), El("meta", <<>>)>>),
                  El("body",
                     <<Text(<<"a">>), El("br", <<>>),
                       El("h2", <<Text(<<"h">>)>>),
                       El("blockquote", <<El("div", <<Text(<<"q">>)>>)>>),
                       El("ul", <<El("li", <<El("b", <<Text(<<"i">>)>>)>>)>>),
                       El("dl", <<El("dt", <<Text(<<"t">>)>>), El("dd", <<Text(<<"d">>)>>)>>),
                       Href(<<"u">>, <<El("span", <<Text(<<"l">>)>>)>>),
                       TableEl(0, 1, 1, 1, FALSE),
                       El("pre", <<El("code", <<Text(<<"c">>)>>)>>),
                       El("kbd", <<Text(<<"k">>)>>),
                       ElA("textarea", NoAttr, <<Text(<<"x">>)>>),
                       El("noscript", <<RawText(<<"r">>, Page(<<>>))>>),
                       El("script", <<>>), FormB>>)>>)>>),
      options |-> zeroOptions],
     [doc |-> Page(<<FormA, Noscript(<<FormB>>), TableEl(1, 1, 1, 1, FALSE),
                     El("p", <<ElA("img", [NoAttr EXCEPT !.src = <<"s">>], <<>>)>>)>>),
      options |-> [zeroOptions EXCEPT !.PrettyTables = TRUE, !.ShowNoscripts = TRUE]],
     [doc |-> Page(<<FormA, Href(BadHref, <<Text(<<"x">>)>>)>>),
      options |-> [zeroOptions EXCEPT !.BaseURL = <<"h", "t", "t", "p", ":", "/", "/", "h", "/">>]]}

\* in-page links (href="#x") and elements that carry the name x as id or
\* name: in a paragraph, in line, in a list item, as and in a heading, in a
\* table cell, on the link itself, in a block quote behind a long line
Frag == <<"#", "x">>
Target(a, kids) == ElA(a, [NoAttr EXCEPT !.id = <<"x">>], kids)
Go == Href(Frag, <<Text(<<"g">>)>>)

FragDocs ==
    {Page(<<Go, Target("p", <<Text(<<"t">>)>>)>>),
     Page(<<Go, Target("span", <<Text(<<"t">>)>>), Text(<<"z">>)>>),
     Page(<<Go, El("ul", <<El("li", <<Target("span", <<Text(<<"t">>)>>)>>)>>)>>),
     Page(<<Go, Target("h2", <<Text(<<"t">>)>>)>>),
     Page(<<Go, El("h2", <<ElA("span", [NoAttr EXCEPT !.name = <<"x">>],
                               <<Text(<<"t">>)>>)>>)>>),
     Page(<<Go, El("table", <<El("tbody", <<El("tr",
                <<El("td", <<Target("span", <<Text(<<"t">>)>>)>>)>>)>>)>>)>>),
     Page(<<El("table", <<El("tbody", <<El("tr",
                <<El("td", <<Href(Frag, <<Target("span", <<Text(<<"t">>)>>)>>)>>)>>)>>)>>)>>),
     Page(<<ElA("a", [NoAttr EXCEPT !.href = Frag, !.id = <<"x">>], <<Text(<<"g">>)>>)>>),
     Page(<<Href(<<"#">>, <<Text(<<"g">>)>>), El("p", <<Text(<<"t">>)>>)>>),
     Page(<<El("noscript", <<Named(Go, <<"a">>)>>), Target("p", <<Text(<<"t">>)>>)>>),
     Page(<<Go, El("blockquote",
                   <<Text(<<"a", " ">> \o SubSeq(LongWord, 1, 70)),
                     Target("p", <<Text(<<"t">>)>>),
                     El("ul", <<El("li", <<Text(<<"b", " ">> \o SubSeq(LongWord, 1, 72)
                                                \o <<" ", "c">>)>>)>>)>>)>>)}

FragInputs ==
    {[doc |-> d,
      options |-> [zeroOptions EXCEPT !.InternalLinks = x[1], !.PrettyTables = x[2],
                                      !.BreakLongLines = x[2]]] :
        d \in FragDocs, x \in BOOLEAN \X BOOLEAN}

\* data URLs as link targets: longer than 100 characters with a semicolon,
\* without one, with one right behind the scheme and with one near the end;
\* of exactly 100 characters; and a short one
DataScheme == <<"d", "a", "t", "a", ":">>
DataURLs ==
    {DataScheme \o <<"i", ";", "b", ",">> \o [k \in 1..92 |-> "A"],
     DataScheme \o [k \in 1..96 |-> "A"],
     DataScheme \o <<";">> \o [k \in 1..95 |-> "A"],
     DataScheme \o [k \in 1..93 |-> "A"] \o <<";", "b", "A">>,
     DataScheme \o <<"i", ";">> \o [k \in 1..93 |-> "A"],
     DataScheme \o <<"i", ";", "b", ",", "A">>}

DataInputs ==
    {[doc |-> Page(<<Href(d, <<Text(<<"g">>)>>)>>),
      options |-> [zeroOptions EXCEPT !.ShowLongDataURL = x]] :
        d \in DataURLs, x \in BOOLEAN}

\* block quotes whose text is longer than a line: a text that continues a
\* line which is nearly full, a text of short words, and a list item
WrapDocs ==
    {Page(<<El("blockquote",
               <<Text(<<"a", " ", "b", " ">> \o SubSeq(LongWord, 1, 64)),
                 El("b", <<Text(<<"c", "d", "e", "f", "g", "h", "i", " ", "j">>)>>)>>)>>),
     Page(<<El("blockquote",
               <<Text(ConcatAll([k \in 1..20 |-> <<"w", "o", "r", "d", " ">>], 1, 20)),
                 El("br", <<>>),
                 Text(SubSeq(LongWord, 1, 74) \o <<" ", "x">>)>>)>>),
     Page(<<El("blockquote",
               <<El("ul", <<El("li", <<Text(<<"b", " ">> \o SubSeq(LongWord, 1, 72)
                                              \o <<" ", "c">>)>>)>>)>>)>>)}

\* a cell that fills a line
LongCellTable ==
    El("table", <<El("tbody", <<El("tr", <<Cell("td", SubSeq(LongWord, 1, maxLineLen)),
                                           Cell("td", <<"b">>)>>)>>)>>)

\* plain tables outside and inside a block quote, one with a row that is
\* longer than a line, and one inside a pre
WrapTableDoc ==
    Page(<<TableEl(2, 2, 2, 2, TRUE),
           El("blockquote", <<TableEl(0, 0, 1, 2, TRUE), LongCellTable>>),
           El("pre", <<TableEl(0, 0, 1, 2, TRUE)>>)>>)

WrapInputs ==
    {[doc |-> d, options |-> [zeroOptions EXCEPT !.BreakLongLines = w]] :
        d \in WrapDocs \cup {WrapTableDoc}, w \in BOOLEAN}

Inputs ==
    ChainInputs \cup SiblingInputs \cup LinkInputs \cup HeadingInputs
        \cup VerbatimInputs \cup FragInputs \cup DataInputs \cup WrapInputs
        \cup TableInputs \cup SampleInputs

\* one goroutine, which calls FromHTMLNode once
OneCall == [phase |-> "one", turn |-> 1, alone |-> <<>>, other |-> <<>>, mixed |-> FALSE]

Init ==
    /\ sched = OneCall
    /\ \E in \in Inputs : doc = in.doc /\ options = in.options
    /\ stack = <<NewFrame("FromHTMLNode", <<>>, TRUE, <<>>, "", "collect", newContext(zeroOptions, {}))>>
    /\ ctxs = <<newContext(options, {})>>
    /\ err = "nil"
    /\ result = [status |-> "none", text |-> <<>>, err |-> "nil"]
    /\ events = <<>>

Next ==
    \/ CollectFragmentIDs \/ FromHTMLNodeFail \/ TrailingSpace \/ CollapseNewlines
    \/ NonBreakingSpace \/ FromHTMLNodeReturn
    \/ TraverseText \/ TraverseOther \/ TraverseOtherReturn
    \/ Br
    \/ EnterHeading \/ ExitHeading
    \/ EnterBlockquote \/ ExitBlockquote
    \/ EnterDiv \/ ExitDiv
    \/ EnterLi \/ ExitLi
    \/ EnterDt \/ ExitDt
    \/ EnterDd \/ ExitDd
    \/ EnterBold \/ ExitBold
    \/ EnterAnchor \/ ExitAnchor
    \/ EnterParagraph \/ ExitParagraph
    \/ EnterPlainCell \/ ExitPlainCell
    \/ Input
    \/ EnterTextarea \/ ExitTextarea
    \/ EnterForm \/ ExitForm
    \/ Img
    \/ EnterPre \/ ExitPre
    \/ EnterCode \/ ExitCode
    \/ EnterTitle \/ ExitTitle
    \/ Ignore
    \/ EnterDefault \/ ExitDefault
    \/ EnterPrettyTable \/ ExitPrettyTable
    \/ EnterTfoot \/ ExitTfoot
    \/ EnterTr \/ ExitTr
    \/ EnterCell \/ RenderEachChild \/ RenderEachChildNext \/ ExitCell
    \/ EnterNoscript \/ ExitNoscript

Spec == Init /\ [][Next]_vars

Done == stack = <<>> /\ result.status = "returned"

-----------------------------------------------------------------------------
(* Two goroutines that call FromHTMLNode at the same time.  A call holds   *)
(* its arguments, its locals and the contexts of the calls below it; the   *)
(* package has no variable that a call writes.  The steps of the two calls *)
(* are interleaved in every order: Switch hands the processor to the other *)
(* call between any two steps.  Before the two run together, each call is  *)
(* run from its start to its end with nothing else running.               *)

\* what a call of FromHTMLNode(in.doc, in.options) holds when it starts
Called(in) ==
    [doc |-> in.doc, options |-> in.options,
     stack |-> <<NewFrame("FromHTMLNode", <<>>, TRUE, <<>>, "", "collect",
                          newContext(zeroOptions, {}))>>,
     ctxs |-> <<newContext(in.options, {})>>,
     err |-> "nil",
     result |-> [status |-> "none", text |-> <<>>, err |-> "nil"],
     events |-> <<>>]

\* what the running call holds
Running ==
    [doc |-> doc, options |-> options, stack |-> stack, ctxs |-> ctxs, err |-> err,
     result |-> result, events |-> events]

\* the processor goes on with the call c
Resume(c) ==
    /\ doc' = c.doc
    /\ options' = c.options
    /\ stack' = c.stack
    /\ ctxs' = c.ctxs
    /\ err' = c.err
    /\ result' = c.result
    /\ events' = c.events

InitTwo ==
    /\ \E a \in ConcInputs, b \in {c \in ConcInputs : c.options # zeroOptions} :
          sched = [phase |-> "first", turn |-> 1, ins |-> <<a, b>>, alone |-> <<>>,
                   other |-> <<>>, mixed |-> FALSE]
    /\ doc = sched.ins[1].doc
    /\ options = sched.ins[1].options
    /\ stack = Called(sched.ins[1]).stack
    /\ ctxs = Called(sched.ins[1]).ctxs
    /\ err = "nil"
    /\ result = [status |-> "none", text |-> <<>>, err |-> "nil"]
    /\ events = <<>>

\* the first call has returned with nothing else running: the second call
\* is run the same way
SecondAlone ==
    /\ sched.phase = "first"
    /\ Done
    /\ sched' = [sched EXCEPT !.phase = "second", !.alone = <<result>>]
    /\ Resume(Called(sched.ins[2]))

\* both have returned: the two calls are started together
StartTogether ==
    /\ sched.phase = "second"
    /\ Done
    /\ sched' = [sched EXCEPT !.phase = "together", !.alone = Append(@, result),
                              !.other = <<Called(sched.ins[2])>>]
    /\ Resume(Called(sched.ins[1]))

\* the processor is handed to the other call, which has steps left
Switch ==
    /\ sched.phase = "together"
    /\ sched.other[1].stack # <<>>
    /\ sched' = [sched EXCEPT
                    !.turn = 3 - @,
                    !.other = <<Running>>,
                    !.mixed = @ \/ (/\ stack # <<>>
                                    /\ events # <<>>
                                    /\ sched.other[1].events # <<>>)]
    /\ Resume(sched.other[1])

NextTwo == Next \/ SecondAlone \/ StartTogether \/ Switch

SpecTwo == InitTwo /\ [][NextTwo]_vars
-----------------------------------------------------------------------------
(* The claims *)

\* the events of one kind, by their position in the history
EventsOf(kind) == {k \in 1..Len(events) : events[k].e = kind}

\* the node at p lies strictly above the node at q
IsAncestor(p, q) == Len(p) < Len(q) /\ SubSeq(q, 1, Len(p)) = p

\* the paths of the elements of the given atoms strictly above the node at q
AncestorsOf(q, atoms) ==
    {k \in 0..(Len(q) - 1) : NodeAt(doc, SubSeq(q, 1, k)).atom \in atoms}

\* the number of places where sub occurs in s
CountSub(s, sub) ==
    Cardinality({k \in 0..(Len(s) - Len(sub)) : SubSeq(s, k + 1, k + Len(sub)) = sub})

\* C1: when the normalization of a link target fails for an anchor, an image
\* or a form, the conversion returns that error and no text; it never
\* returns a document that silently leaves the failing element out.
C1_FailureAborts ==
    (Done /\ EventsOf("normfail") # {})
        => (result.err # "nil" /\ result.text = <<>>)

\* C2: the text an anchor emits is decided by its link text t and its
\* normalized target h: nothing when both are empty, [[t]] when they are
\* equal, [[h][t]] when both are present and differ, [[h]] when only the
\* target is present, t when only the text is; exactly one case applies.
C2_LinkCases ==
    \A k \in EventsOf("link") :
        LET t == events[k].linkText
            h == events[k].hrefLink
            r == events[k].res
            cases == <<t = <<>> /\ h = <<>>,
                       t # <<>> /\ t = h,
                       t # <<>> /\ h # <<>> /\ t # h,
                       t = <<>> /\ h # <<>>,
                       t # <<>> /\ h = <<>>>>
            texts == <<<<>>,
                       <<"[", "[">> \o t \o <<"]", "]">>,
                       <<"[", "[">> \o h \o <<"]", "[">> \o t \o <<"]", "]">>,
                       <<"[", "[">> \o h \o <<"]", "]">>,
                       t>>
        IN /\ Cardinality({c \in 1..5 : cases[c]}) = 1
           /\ \A c \in 1..5 : cases[c] => r = texts[c]
           /\ HasSuffix(events[k + 1].out, r)

\* an anchor with a text and a different target has emitted its link
C2_Witness ==
    \E k \in EventsOf("link") :
        /\ events[k].linkText # <<>>
        /\ events[k].hrefLink # <<>>
        /\ events[k].linkText # events[k].hrefLink
        /\ Contains(events[k + 1].out, <<"]", "[">>)

\* the block quotes the conversion rendered that lie in no other block quote
OutermostQuotes ==
    {events[k].p : k \in {j \in EventsOf("return") :
        /\ events[j].atom = "blockquote"
        /\ AncestorsOf(events[j].p, {"blockquote"}) = {}}}

\* C3: block quotes nested in one another, directly or through any other
\* elements, yield one begin delimiter and one end delimiter, those of the
\* outermost block quote.
C3_OneDelimiterPair ==
    (Done /\ result.err = "nil" /\ EventsOf("normfail") = {})
        => /\ CountSub(result.text, <<"#", "+", "b", "e", "g", "i", "n", "_", "q", "u", "o", "t", "e">>) = Cardinality(OutermostQuotes)
           /\ CountSub(result.text, <<"#", "+", "e", "n", "d", "_", "q", "u", "o", "t", "e">>) = Cardinality(OutermostQuotes)

\* the form elements the node at p lies in, as the lengths of their paths
FormsAbove(p) == AncestorsOf(p, {"form"})

\* the nodes at p and q lie in one form element
SameForm(p, q) ==
    \E n \in FormsAbove(p) : n < Len(q) /\ SubSeq(q, 1, n) = SubSeq(p, 1, n)

\* C4: of two input fields of one form the later one carries a greater
\* identifier than the earlier one.
C4_DistinctInputIds ==
    \A i, j \in EventsOf("input") :
        (i < j /\ SameForm(events[i].p, events[j].p))
            => (events[i].inForm /\ events[j].inForm /\ events[i].id < events[j].id)

\* C5: the form counter only increases: no two forms of one conversion are
\* given the same identifier, whatever elements enclose them.
C5_DistinctFormIds ==
    \A i, j \in EventsOf("form") : i < j => events[i].id < events[j].id

\* C6: a handler leaves blockquoteLevel as it found it, on its normal and
\* on its error returns, and the level is never negative.
C6_LevelRestored ==
    \A k \in EventsOf("return") :
        events[k].lvlOut = events[k].lvlIn /\ events[k].lvlOut >= 0

\* the maximal runs of newlines of s, by the position of their first newline
Runs(s) == {k \in 1..Len(s) : s[k] = NL /\ (k = 1 \/ s[k - 1] # NL)}

\* the length of the run of newlines that starts at position k of s
RunLen(s, k) ==
    (CHOOSE j \in (k + 1)..(Len(s) + 1) :
        /\ j = Len(s) + 1 \/ s[j] # NL
        /\ \A i \in k..(j - 1) : s[i] = NL) - k

\* s without its newlines
Unbroken(s) == SelectSeq(s, LAMBDA c : c # NL)

\* after is before with every run of two or more newlines made a run of two
RunsCollapsed(before, after) ==
    /\ Unbroken(after) = Unbroken(before)
    /\ Cardinality(Runs(after)) = Cardinality(Runs(before))
    /\ \A k \in Runs(after) : RunLen(after, k) <= 2
    /\ Cardinality({k \in Runs(after) : RunLen(after, k) = 2})
           = Cardinality({k \in Runs(before) : RunLen(before, k) >= 2})

\* a conversion, the outermost or a nested one, has made its newline pass
AfterNewlinePass ==
    stack # <<>> /\ Top.fn = "FromHTMLNode" /\ Top.phase = "nbsp"

\* C7: the returned text never holds three or more newlines in a row: the
\* pass over the buffer turns every run of two or more newlines into
\* exactly two.
C7_BlankLinesCollapsed ==
    /\ Done => \A k \in Runs(result.text) : RunLen(result.text, k) <= 2
    /\ AfterNewlinePass => RunsCollapsed(trailingSpaceRe(Cur.buf), Top.s)

\* a buffer with three newlines in a row between its texts has been through
\* the pass
C7_Witness ==
    /\ AfterNewlinePass
    /\ Contains(TrimSpace(Cur.buf), <<NL, NL, NL>>)
    /\ Contains(TrimSpace(Top.s), <<NL, NL>>)

\* the table element nearest above the node at p, as the length of its path
NearestTable(p) ==
    LET above == AncestorsOf(p, {"table"})
    IN IF above = {} THEN -1 ELSE CHOOSE n \in above : \A m \in above : m <= n

\* the texts of the cells rendered before the k-th event whose nearest table
\* is the one at tp, in the order they were rendered; kind is "header",
\* "footer" or "body"
OwnCells(k, tp, kind) ==
    LET Own(e) ==
            /\ e.e = "cell"
            /\ IsAncestor(tp, e.p)
            /\ NearestTable(e.p) = Len(tp)
            /\ kind = (IF e.atom = "th" THEN "header"
                       ELSE IF \E n \in AncestorsOf(e.p, {"tfoot"}) : n > Len(tp)
                            THEN "footer" ELSE "body")
        own == SelectSeq(SubSeq(events, 1, k - 1), Own)
    IN [i \in 1..Len(own) |-> own[i].text]

\* C8: with PrettyTables, the header, body and footer of every rendered
\* table hold all and only the cells of that table's own th and td
\* elements, in source order.
C8_OwnCellsOnly ==
    \A k \in EventsOf("table") :
        /\ events[k].header = OwnCells(k, events[k].p, "header")
        /\ events[k].footer = OwnCells(k, events[k].p, "footer")
        /\ ConcatAll(events[k].body, 1, Len(events[k].body))
               = OwnCells(k, events[k].p, "body")

\* a table of sections of rows of cells that hold at most one text, a text
\* without white space
SimpleCell(c) ==
    /\ c.atom \in {"td", "th"}
    /\ \/ c.kids = <<>>
       \/ /\ Len(c.kids) = 1
          /\ c.kids[1].type = "text"
          /\ c.kids[1].data # <<>>
          /\ \A i \in 1..Len(c.kids[1].data) : ~IsSpace(c.kids[1].data[i])

SimpleTable(t) ==
    /\ t.kids # <<>>
    /\ \A s \in 1..Len(t.kids) :
          /\ t.kids[s].atom \in {"thead", "tbody", "tfoot"}
          /\ \A r \in 1..Len(t.kids[s].kids) :
                /\ t.kids[s].kids[r].atom = "tr"
                /\ \A c \in 1..Len(t.kids[s].kids[r].kids) :
                      SimpleCell(t.kids[s].kids[r].kids[c])

CellTextOf(c) == IF c.kids = <<>> THEN <<>> ELSE c.kids[1].data

\* the rows of a table in document order
RowsOf(t) == ConcatAll([s \in 1..Len(t.kids) |-> t.kids[s].kids], 1, Len(t.kids))

\* every cell text followed by one space, the row by one newline
SpacedRow(r) ==
    ConcatAll([j \in 1..Len(r.kids) |-> CellTextOf(r.kids[j]) \o <<" ">>],
              1, Len(r.kids)) \o <<NL>>

\* the same, but without the space of a cell at which the line has not begun
TrimmedRow(r) ==
    ConcatAll([j \in 1..Len(r.kids) |->
                  CellTextOf(r.kids[j])
                      \o (IF \A i \in 1..j : CellTextOf(r.kids[i]) = <<>>
                          THEN <<>> ELSE <<" ">>)],
              1, Len(r.kids)) \o <<NL>>

\* the simple tables rendered without PrettyTables, by their return events
PlainTables ==
    {k \in EventsOf("return") :
        /\ events[k].atom = "table"
        /\ events[k].err = "nil"
        /\ ~events[k].pretty
        /\ SimpleTable(NodeAt(doc, events[k].p))}

\* the texts of the cells of a table in document order, in a row
CellTexts(t) ==
    ConcatAll([i \in 1..Len(RowsOf(t)) |->
                  ConcatAll([j \in 1..Len(RowsOf(t)[i].kids) |->
                                CellTextOf(RowsOf(t)[i].kids[j])],
                            1, Len(RowsOf(t)[i].kids))],
              1, Len(RowsOf(t)))

\* what a row writes: in verbatim mode emit keeps the space that opens a line
RowText(r, pre) == IF pre THEN SpacedRow(r) ELSE TrimmedRow(r)

\* emit breaks no line of the table at k: long lines are not broken there,
\* or every row with its newline fits into a line
Unwrapped(k) ==
    \/ ~events[k].wrap
    \/ \A i \in 1..Len(RowsOf(NodeAt(doc, events[k].p))) :
          Len(RowText(RowsOf(NodeAt(doc, events[k].p))[i], events[k].pre)) <= maxLineLen

\* C9 (as stated): without PrettyTables a table of H header cells, F footer
\* cells and R rows of C cells yields its cell texts in document order, each
\* followed by one space, and each row followed by one newline.
C9_EveryCellSpaced ==
    \A k \in PlainTables :
        LET rows == RowsOf(NodeAt(doc, events[k].p))
        IN events[k].out =
               <<NL, NL>>
                   \o ConcatAll([i \in 1..Len(rows) |-> SpacedRow(rows[i])], 1, Len(rows))
                   \o <<NL, NL>>

\* C9 (amended): what a plain table writes is, white space aside, its cell
\* texts in document order, none dropped, duplicated or reordered. Where
\* emit breaks no line (outside a block quote with BreakLongLines, or every
\* row fits into a line) each row is followed by one newline and each cell
\* by one space, except that outside verbatim mode no space is written for a
\* cell while the line has not begun (an empty cell that opens its row or
\* follows only empty cells).
C9_PlainTable ==
    \A k \in PlainTables :
        LET t == NodeAt(doc, events[k].p)
            rows == RowsOf(t)
        IN /\ SelectSeq(events[k].out, LAMBDA c : c \notin {" ", NL}) = CellTexts(t)
           /\ Unwrapped(k) =>
                 events[k].out =
                     <<NL, NL>>
                         \o ConcatAll([i \in 1..Len(rows) |-> RowText(rows[i], events[k].pre)],
                                      1, Len(rows))
                         \o <<NL, NL>>

\* four plain tables of one document have been rendered: one with a
\* header, a footer and two rows of two cells, the first cell of every row
\* empty; one inside a block quote with BreakLongLines whose rows fit into a
\* line; one there with a row too long for a line, which emit has broken;
\* and one in verbatim mode whose row opens with an empty cell
C9_Witness ==
    /\ \E k \in PlainTables :
          LET t == NodeAt(doc, events[k].p)
          IN /\ ~events[k].wrap /\ ~events[k].pre
             /\ Len(t.kids) = 3
             /\ Len(RowsOf(t)) = 4
             /\ \A i \in 1..4 : Len(RowsOf(t)[i].kids) = 2
                                   /\ CellTextOf(RowsOf(t)[i].kids[1]) = <<>>
                                   /\ CellTextOf(RowsOf(t)[i].kids[2]) # <<>>
    /\ \E k \in PlainTables :
          /\ events[k].wrap /\ Unwrapped(k)
          /\ CellTextOf(RowsOf(NodeAt(doc, events[k].p))[1].kids[1]) = <<>>
    /\ \E k \in PlainTables :
          /\ events[k].wrap /\ ~Unwrapped(k)
          /\ Contains(events[k].out, SubSeq(LongWord, 1, maxLineLen) \o <<NL, "b", " ", NL>>)
    /\ \E k \in PlainTables :
          /\ events[k].pre
          /\ CellTextOf(RowsOf(NodeAt(doc, events[k].p))[1].kids[1]) = <<>>
          /\ events[k].out[3] = " "

\* the level of a heading element
Level(a) == [h1 |-> 1, h2 |-> 2, h3 |-> 3, h4 |-> 4, h5 |-> 5, h6 |-> 6][a]

\* s on one line: every run of white space between two words is one space,
\* the white space at the ends is gone
OneLine(s) ==
    LET ws(k) == s[k] \in {" ", "\n", "\t", "\r"}
    IN ConcatAll([k \in 1..Len(s) |->
                     IF ~ws(k) THEN <<s[k]>>
                     ELSE IF /\ k < Len(s) /\ ~ws(k + 1)
                             /\ \E i \in 1..(k - 1) : ~ws(i)
                          THEN <<" ">> ELSE <<>>],
                 1, Len(s))

\* C10: a heading of level N writes a newline, N stars, one space, its
\* content on one line, and a newline.
C10_HeadingLine ==
    \A k \in EventsOf("return") :
        (events[k].atom \in headingAtoms /\ events[k].err = "nil")
            => events[k].out =
                   <<NL>> \o [i \in 1..Level(events[k].atom) |-> "*"] \o <<" ">>
                       \o OneLine(events[k].sub) \o <<NL>>

\* the target of the anchor at p as normalizeHrefLink yields it
TargetOf(p) ==
    normalizeHrefLink(newContext(options, {}), TrimSpace(getAttrVal(NodeAt(doc, p), "href")))

\* C11: with OmitLinks the target of an anchor is neither normalized nor
\* written: no anchor fails on its target, the link is built from an empty
\* target, what the anchor emits is its link text (nothing when that is
\* empty), and no [[...]] form of the target is written.
C11_OmittedLinks ==
    options.OmitLinks =>
        /\ \A k \in EventsOf("normfail") : NodeAt(doc, events[k].p).atom # "a"
        /\ \A k \in EventsOf("link") :
              /\ events[k].hrefLink = <<>>
              /\ events[k].res = events[k].linkText
              /\ HasSuffix(events[k + 1].out, events[k].linkText)
              /\ TargetOf(events[k].p).s # <<>> =>
                    ~Contains(events[k + 1].out,
                              <<"[", "[">> \o TargetOf(events[k].p).s \o <<"]">>)

\* with OmitLinks and a BaseURL, an anchor with a text and a target that
\* url.Parse rejects has emitted its text, and the conversion has returned
C11_Witness ==
    /\ options.OmitLinks
    /\ options.BaseURL # <<>>
    /\ Done
    /\ result.err = "nil"
    /\ \E k \in EventsOf("link") :
          /\ getAttrVal(NodeAt(doc, events[k].p), "href") = BadHref
          /\ TargetOf(events[k].p).err # "nil"
          /\ events[k].linkText # <<>>
          /\ events[k + 1].out = events[k].linkText

\* C12: while a subtree is rendered in isolation (traverseWithSubContext,
\* the conversion of one child of a table cell, the conversion of a noscript
\* text), no field of a context below the rendering one changes, its buffer
\* included: a context changes only while it is the one the running code
\* works on, which for a parent is again the case when the sub-render has
\* returned its string.
C12_ParentUntouched ==
    [][\A j \in 1..(Len(ctxs) - 1) : j < Len(ctxs') => ctxs'[j] = ctxs[j]]_vars

\* a sub-context has been written to while the buffer of its parent holds
\* another text
C12_Witness ==
    /\ Len(ctxs) >= 2
    /\ Top.fn = "handleElement" /\ Top.own
    /\ Cur.buf # <<>>
    /\ ctxs[Len(ctxs) - 1].buf # <<>>
    /\ ctxs[Len(ctxs) - 1].buf # Cur.buf

\* the result the call that runs, or the one that does not, has returned
ReturnedBy(g) ==
    IF g = sched.turn THEN result ELSE sched.other[1].result

HasReturned(g) ==
    IF g = sched.turn THEN Done ELSE sched.other[1].stack = <<>>

\* C13: two calls of FromHTMLNode whose steps are interleaved in any order
\* return what each returns when it runs with nothing else running: the
\* text and the error of a call depend on its own document and options
\* only.
C13_SameAsAlone ==
    sched.phase = "together" =>
        \A g \in {1, 2} : HasReturned(g) => ReturnedBy(g) = sched.alone[g]

\* two calls, both of documents with forms, have returned different texts
\* after the processor went from one to the other while both were at work
C13_Witness ==
    /\ sched.phase = "together"
    /\ sched.mixed
    /\ HasReturned(1) /\ HasReturned(2)
    /\ ReturnedBy(1).text # <<>> /\ ReturnedBy(2).text # <<>>
    /\ ReturnedBy(1).text # ReturnedBy(2).text
    /\ \E k \in EventsOf("form") : TRUE
    /\ \E k \in 1..Len(sched.other[1].events) : sched.other[1].events[k].e = "form"

\* the characters spacingRe matches
Blank(c) == c \in {" ", "\t", "\r", "\n"}

\* s with every maximal run of blanks made one space
Collapsed(s) ==
    ConcatAll([k \in 1..Len(s) |->
                  IF ~Blank(s[k]) THEN <<s[k]>>
                  ELSE IF k < Len(s) /\ Blank(s[k + 1]) THEN <<>> ELSE <<" ">>],
              1, Len(s))

\* the text nodes traversed outside verbatim mode, by their events
PlainTexts == {k \in EventsOf("text") : ~events[k].pre}

\* C14 (as stated): outside verbatim mode the text appended to the buffer
\* for a text node is the data of the node with every maximal run of space,
\* tab, CR and LF made one space.
C14_AppendedCollapsed ==
    \A k \in PlainTexts :
        events[k].out = Collapsed(NodeAt(doc, events[k].p).data)

\* C14 (amended): outside verbatim mode the text handed to emit for a text
\* node is the data of the node with every maximal run of space, tab, CR
\* and LF made one space; it holds no tab, CR or LF and no two adjacent
\* spaces, and cleanSpacing leaves it as it is.  Where long lines are not
\* broken, what is appended to the buffer is that text, without its first
\* character when that is a space and the line has not begun.
C14_TextCollapsed ==
    \A k \in PlainTexts :
        LET t == events[k].data
        IN /\ t = Collapsed(NodeAt(doc, events[k].p).data)
           /\ \A i \in 1..Len(t) : t[i] \notin {"\t", "\r", "\n"}
           /\ \A i \in 1..(Len(t) - 1) : ~(t[i] = " " /\ t[i + 1] = " ")
           /\ cleanSpacing(t) = t
           /\ ~events[k].wrap =>
                 events[k].out = (IF events[k].atStart /\ t # <<>> /\ t[1] = " "
                                  THEN Tail(t) ELSE t)

\* a text with runs of blanks of every kind, one of them at its start, has
\* been appended where the line had not begun, and one where it had
C14_Witness ==
    /\ \E k \in PlainTexts :
          LET d == NodeAt(doc, events[k].p).data
          IN /\ events[k].atStart
             /\ Blank(d[1])
             /\ \E i \in 1..(Len(d) - 1) : d[i] = NL /\ Blank(d[i + 1])
             /\ \E i \in 1..Len(d) : d[i] = "\t"
             /\ Len(events[k].out) < Len(events[k].data)
             /\ Len(events[k].data) < Len(d)
    /\ \E k \in PlainTexts :
          /\ ~events[k].atStart
          /\ events[k].data[1] = " "
          /\ events[k].out = events[k].data

\* the anchors with one child, a text node, that have built their link, by
\* their link events; the event before is that of the text node
TextLinks ==
    {k \in EventsOf("link") :
        LET a == NodeAt(doc, events[k].p)
        IN Len(a.kids) = 1 /\ a.kids[1].type = "text"}

\* C15 (as stated): when the sole child of an anchor is a text node, the
\* link text is the data of that node as it stands, neither trimmed nor
\* collapsed.
C15_RawLinkText ==
    \A k \in TextLinks :
        events[k].linkText = NodeAt(doc, events[k].p).kids[1].data

\* C15 (amended): when the sole child of an anchor is a text node, the link
\* text is that node rendered in isolation and trimmed: its data, with the
\* runs of blanks made one space unless verbatim mode is on, without the
\* white space at its ends.
C15_TrimmedLinkText ==
    \A k \in TextLinks :
        LET d == NodeAt(doc, events[k].p).kids[1].data
        IN /\ events[k - 1].e = "text"
           /\ events[k - 1].p = Append(events[k].p, 1)
           /\ events[k].linkText =
                  TrimSpace(IF events[k - 1].pre THEN d ELSE Collapsed(d))

\* an anchor whose text has white space at its ends and a run of spaces
\* inside has built its link, outside verbatim mode and inside
C15_Witness ==
    \E i, j \in TextLinks :
        LET d == NodeAt(doc, events[i].p).kids[1].data
        IN /\ d = NodeAt(doc, events[j].p).kids[1].data
           /\ d[1] = " " /\ Last(d) = NL /\ Contains(d, <<" ", " ">>)
           /\ ~events[i - 1].pre /\ events[j - 1].pre
           /\ events[i].linkText # events[j].linkText
           /\ events[i].linkText # d /\ events[j].linkText # d

\* some node below n, at any depth, is a block-level element
RECURSIVE HasBlockBelow(_)
HasBlockBelow(n) ==
    \E i \in 1..Len(n.kids) :
        n.kids[i].atom \in blockLevelAtoms \/ HasBlockBelow(n.kids[i])

\* C16: an anchor with a block-level element below it, at any depth, renders
\* its children in isolation, writes the result on one line before the
\* link, and builds the link with the text Link.
C16_BlockAnchors ==
    \A k \in EventsOf("link") :
        (HasBlockBelow(NodeAt(doc, events[k].p)) /\ ~events[k + 1].wrap)
            => /\ events[k].linkText = <<"L", "i", "n", "k">>
               /\ events[k + 1].out =
                      <<NL>> \o TrimPrefix(Collapsed(events[k + 1].sub), <<" ">>)
                          \o events[k].res

\* the anchors whose one child is an image without an alt text, by their
\* link events
EmptyAltLinks ==
    {k \in EventsOf("link") :
        LET a == NodeAt(doc, events[k].p)
        IN /\ Len(a.kids) = 1
           /\ a.kids[1].atom = "img"
           /\ getAttrVal(a.kids[1], "alt") = <<>>}

\* C17: an anchor whose one child is an image with an empty alt renders its
\* children in isolation and takes the trimmed result as its link text, so
\* that an image with a src is written as part of the link.
C17_EmptyAltImage ==
    \A k \in EmptyAltLinks :
        LET img == NodeAt(doc, events[k].p).kids[1]
        IN /\ \E j \in 1..(k - 1) :
                 events[j].e = "return" /\ events[j].p = Append(events[k].p, 1)
           /\ events[k].linkText = TrimSpace(events[k + 1].sub)
           /\ getAttrVal(img, "src") # <<>> =>
                 /\ events[k].linkText # <<>>
                 /\ Contains(events[k + 1].out, events[k].linkText)

\* C18: verbatim mode is on for every node below a pre element, whatever
\* elements lie between, from the first child of the outermost pre to its
\* closing delimiter, and a pre inside a pre writes no delimiters of its own.
C18_VerbatimSubtree ==
    /\ \A k \in EventsOf("text") :
          AncestorsOf(events[k].p, {"pre"}) # {} => events[k].pre
    /\ \A k \in EventsOf("return") :
          (events[k].atom = "pre" /\ AncestorsOf(events[k].p, {"pre"}) # {})
              => /\ ~Contains(events[k].out, <<"#", "+", "b", "e", "g", "i", "n", "_", "s", "r", "c">>)
                 /\ ~Contains(events[k].out, <<"#", "+", "e", "n", "d", "_", "s", "r", "c">>)

\* C19: for a text node traversed while verbatim mode is on, what is
\* appended to the buffer is the data of the node, character for character,
\* whatever the options and the elements around it.
C19_VerbatimText ==
    \A k \in EventsOf("text") :
        events[k].pre => events[k].out = NodeAt(doc, events[k].p).data


\* C20: whenever the handler of a div returns without an error, the buffer of
\* its context ends with a newline: the div wrote something and the last
\* character it wrote is a newline, so that what follows starts a new line
C20_DivEndsLine ==
    \A k \in EventsOf("return") :
        (events[k].atom = "div" /\ events[k].err = "nil")
            => /\ events[k].out # <<>>
               /\ events[k].out[Len(events[k].out)] = NL


\* the characters of buffer b that follow its last newline (all of them when
\* it holds none)
LastLineLen(b) ==
    LET nls == {k \in 1..Len(b) : b[k] = NL}
    IN IF nls = {} THEN Len(b)
       ELSE Len(b) - (CHOOSE k \in nls : \A j \in nls : j <= k)

\* C21: in every context, after every handler step, and after the emit that
\* writes the text of a list item behind its prefix, lineLength is the number
\* of characters of the buffer that follow its last newline
C21_LineLengthExact ==
    /\ \A j \in 1..Len(ctxs) : ctxs[j].lineLength = LastLineLen(ctxs[j].buf)
    /\ (Returning({"li"}) /\ err = "nil" /\ TrimSpace(cleanSpacing(Cur.buf)) # <<>>)
           => LET c == liItem(Receiver, Cur.buf)
              IN c.lineLength = LastLineLen(c.buf)


\* the names the in-page links of the tree under n refer to: href="#name"
\* with a name that is not empty, on n itself or on an anchor at any depth
RECURSIVE FragmentNames(_)
FragmentNames(n) ==
    (IF n.atom = "a" /\ HasPrefix(getAttrVal(n, "href"), <<"#">>)
           /\ Len(getAttrVal(n, "href")) > 1
     THEN {Tail(getAttrVal(n, "href"))} ELSE {})
        \cup UNION {FragmentNames(n.kids[k]) : k \in 1..Len(n.kids)}

\* the elements of the document (not of a re-parsed noscript text) whose
\* handler has returned without an error and whose id or name is referred to
\* by an in-page link of the document
VisitedTargets ==
    {events[k].p : k \in {j \in EventsOf("return") :
        /\ events[j].err = "nil"
        /\ \A i \in 1..Len(events[j].p) : events[j].p[i] # 0
        /\ {getAttrVal(NodeAt(doc, events[j].p), "id"),
            getAttrVal(NodeAt(doc, events[j].p), "name")}
               \cap FragmentNames(doc) # {}}}

Marker(name) == <<"<", "<">> \o name \o <<">", ">">>

\* C22: with InternalLinks, the returned document holds the marker <<name>>
\* of every visited element whose id or name an in-page link of the document
\* refers to, wherever the element sits; without InternalLinks it holds no
\* marker at all
C22_MarkersEverywhere ==
    (Done /\ result.err = "nil") =>
        IF options.InternalLinks
        THEN \A p \in VisitedTargets :
                 \E a \in {"id", "name"} :
                     /\ getAttrVal(NodeAt(doc, p), a) \in FragmentNames(doc)
                     /\ Contains(result.text, Marker(getAttrVal(NodeAt(doc, p), a)))
        ELSE ~Contains(result.text, <<"<", "<">>)


\* C23: when the collector pass of a call FromHTMLNode(root) is over, the
\* fragment-name set of its context holds exactly the names that are not
\* empty and that some anchor of the tree passed in, root included, refers
\* to with href="#name"
C23_CollectedNames ==
    (stack # <<>> /\ Top.fn = "FromHTMLNode" /\ Top.phase = "walk")
        => Cur.fragmentIDs = FragmentNames(TopNode)


HrefOf(p) == getAttrVal(NodeAt(doc, p), "href")

Omitted == <<"(", "o", "m", "i", "t", "t", "e", "d", ")">>

\* the anchors whose href is a data URL of more than 100 characters that was
\* normalized with ShowLongDataURL off
LongDataLinks ==
    {k \in EventsOf("link") :
        /\ ~options.ShowLongDataURL
        /\ ~options.OmitLinks
        /\ HasPrefix(HrefOf(events[k].p), <<"d", "a", "t", "a", ":">>)
        /\ Len(HrefOf(events[k].p)) > 100}

\* C24: with ShowLongDataURL off, a data URL of more than 100 characters is
\* normalized to the part before its first semicolon followed by
\* ";(omitted)", and to "data:(omitted)" when it holds no semicolon; the
\* result is never longer than the URL
C24_DataURLOmitted ==
    \A k \in LongDataLinks :
        LET h == HrefOf(events[k].p)
        IN /\ events[k].hrefLink =
                  IF Contains(h, <<";">>)
                  THEN SplitFirst(h, <<";">>) \o <<";">> \o Omitted
                  ELSE <<"d", "a", "t", "a", ":">> \o Omitted
           /\ Len(events[k].hrefLink) <= Len(h)


\* the tr nearest above the node at p, as the length of its path (-1: none)
NearestRow(p) ==
    LET above == AncestorsOf(p, {"tr"})
    IN IF above = {} THEN -1 ELSE CHOOSE n \in above : \A m \in above : m <= n

\* the node at p lies in a tfoot of its own table
InFoot(p) == \E n \in AncestorsOf(p, {"tfoot"}) : n > NearestTable(p)

\* the texts of the cells of kind a (th or td) rendered so far whose nearest
\* enclosing tr is the one at q, in the order they were rendered
RowCells(q, a) ==
    LET Own(e) == /\ e.e = "cell"
                  /\ e.atom = a
                  /\ IsAncestor(q, e.p)
                  /\ NearestRow(e.p) = Len(q)
        own == SelectSeq(events, Own)
    IN [i \in 1..Len(own) |-> own[i].text]

\* C25: in pretty-tables mode, when a td outside a tfoot is handled the row
\* cursor indexes an existing body row; and when a tr has handled its
\* children, its th cells are the last of the header row, its td cells are
\* the last of the footer row if the tr lies in a tfoot, and are otherwise
\* exactly the body row the tr opened, which the row cursor indexes
C25_CellsInPlace ==
    /\ (InCells /\ Cur.options.PrettyTables /\ TopNode.atom = "td")
           => IF InFoot(Top.p) THEN Cur.tableCtx.isInFooter
              ELSE /\ ~Cur.tableCtx.isInFooter
                   /\ Cur.tableCtx.tmpRow < Len(Cur.tableCtx.body)
    /\ (Returning({"tr"}) /\ err = "nil" /\ Cur.options.PrettyTables)
           => LET t == Cur.tableCtx
              IN /\ t.tmpRow = Len(t.body) - 1
                 /\ HasSuffix(t.header, RowCells(Top.p, "th"))
                 /\ IF InFoot(Top.p)
                    THEN /\ HasSuffix(t.footer, RowCells(Top.p, "td"))
                         /\ t.body[t.tmpRow + 1] = <<>>
                    ELSE t.body[t.tmpRow + 1] = RowCells(Top.p, "td")

\* the second tr of the body of a table has taken its second cell, in a
\* table whose header row has cells (the tr of the header opened the first,
\* empty, body row)
C25_Witness ==
    /\ Returning({"tr"}) /\ err = "nil" /\ Cur.options.PrettyTables
    /\ ~InFoot(Top.p)
    /\ Cur.tableCtx.tmpRow = 2
    /\ Len(RowCells(Top.p, "td")) = 2
    /\ Cur.tableCtx.body[2] # <<>>
    /\ Cur.tableCtx.header # <<>>


\* C26: in every document FromHTMLNode returns no newline follows a space,
\* the document neither starts nor ends with white space, and the final
\* normalization applied to it once more leaves it as it is
C26_NormalizedOutput ==
    (result.status = "returned" /\ result.err = "nil") =>
        /\ ~Contains(result.text, <<" ", NL>>)
        /\ result.text # <<>> =>
               (~IsSpace(result.text[1]) /\ ~IsSpace(Last(result.text)))
        /\ finalNormalize(result.text) = result.text


\* the noscript elements of the document whose handler has returned
\* without an error (those inside a re-parsed noscript text left out)
NoscriptReturns ==
    {k \in EventsOf("return") :
        /\ events[k].atom = "noscript"
        /\ events[k].err = "nil"
        /\ \A i \in 1..Len(events[k].p) : events[k].p[i] # 0}

\* C27: a noscript element writes something only if ShowNoscripts is set
\* and its first child is a text node; and no child of a noscript element is
\* traversed directly: what is visited below it is the tree parsed from the
\* text of its first child
C27_NoscriptText ==
    \A k \in NoscriptReturns :
        LET node == NodeAt(doc, events[k].p)
        IN /\ events[k].out # <<>>
                  => /\ options.ShowNoscripts
                     /\ node.kids # <<>>
                     /\ node.kids[1].type = "text"
           /\ \A j \in 1..Len(events) :
                  IsAncestor(events[k].p, events[j].p)
                      => /\ Len(events[j].p) >= Len(events[k].p) + 2
                         /\ events[j].p[Len(events[k].p) + 1] = 1
                         /\ events[j].p[Len(events[k].p) + 2] = 0


\* the form event of the form element nearest above the node at p (forms do
\* not nest), or 0 when that form has not been entered
FormEventAbove(p) ==
    LET fs == {f \in EventsOf("form") :
                  /\ IsAncestor(events[f].p, p)
                  /\ \A n \in FormsAbove(p) : n <= Len(events[f].p)}
    IN IF fs = {} THEN 0 ELSE CHOOSE f \in fs : \A g \in fs : g <= f

\* the text carries the identifier of the form of event f
CarriesFormId(text, f) ==
    f # 0 /\ Contains(text, <<" ", ":", "i", "d", " ">> \o orgFormID(events[f].id) \o <<" ">>)

\* the nodes of the document proper below a form element (not those of a
\* re-parsed noscript text)
InsideForm(p) ==
    /\ FormsAbove(p) # {}
    /\ \A i \in 1..Len(p) : p[i] # 0

\* C28: every recognized input field and every textarea below a form
\* element is rendered with the identifier org-form-id--N of that form, the
\* N of the form's Submit link, whatever elements lie between them
C28_FieldsCarryFormId ==
    /\ \A i \in EventsOf("input") :
           InsideForm(events[i].p)
               => CarriesFormId(events[i].block, FormEventAbove(events[i].p))
    /\ \A k \in EventsOf("return") :
           (events[k].atom = "textarea" /\ events[k].err = "nil"
                /\ InsideForm(events[k].p))
               => CarriesFormId(events[k].out, FormEventAbove(events[k].p))


\* the line of s that starts at a, when it has more than maxLineLen
\* characters: a is the start of s or follows a newline, and no newline is
\* among the maxLineLen + 1 characters from a on
LongLineAt(s, a) ==
    /\ a + maxLineLen <= Len(s)
    /\ a = 1 \/ s[a - 1] = NL
    /\ \A j \in a..(a + maxLineLen) : s[j] # NL

\* the line of s that starts at a, up to the next newline
LineAt(s, a) ==
    LET nls == {j \in a..Len(s) : s[j] = NL}
    IN SubSeq(s, a, IF nls = {} THEN Len(s)
                    ELSE (CHOOSE j \in nls : \A i \in nls : j <= i) - 1)

SingleWord(line) ==
    LET w == TrimSpace(line) IN \A j \in 1..Len(w) : ~IsSpace(w[j])

\* C29: where long lines are not broken (outside block quotes, or without
\* BreakLongLines) a text is written in one piece, with no newline put in;
\* where they are, no line an outermost block quote has written is longer
\* than maxLineLen characters unless it is a single word
C29_LinesFit ==
    /\ \A k \in EventsOf("text") :
           ~events[k].wrap
               => events[k].out \in {events[k].data, TrimPrefix(events[k].data, <<" ">>)}
    /\ \A k \in EventsOf("return") :
           (events[k].atom = "blockquote" /\ events[k].err = "nil"
                /\ events[k].lvlIn = 0 /\ events[k].wrap)
               => \A a \in 1..Len(events[k].out) :
                      LongLineAt(events[k].out, a)
                          => SingleWord(LineAt(events[k].out, a))


\* endsWithNewLine says what the buffer ends with
FlagExact(c) == c.endsWithNewLine <=> (c.buf # <<>> /\ Last(c.buf) = NL)

\* C30: in every state of every render context, endsWithNewLine is set if
\* and only if the buffer is not empty and ends with a newline: at every
\* step of the handlers, when handleInternalLinks tests the flag (the byte
\* it then cuts off is a newline), and when it calls emit for the marker
C30_FlagExact ==
    /\ \A j \in 1..Len(ctxs) : FlagExact(ctxs[j])
    /\ \A k \in EventsOf("marker") :
           /\ events[k].set <=> events[k].had
           /\ events[k].flag <=> events[k].ends

====
